---- MODULE Spec2Model ----
(***************************************************************************)
(* Model of the revathi-enterprises-ui admin console.                      *)
(*                                                                         *)
(* The specifications of the module:                                       *)
(*   Spec        one list page (Users, Variants, Products,                 *)
(*               ProductVariants or Sales): search, select-then-apply      *)
(*               filters, pagination, delayed callbacks, the list query;   *)
(*   PagingSpec  pagination and the list query under either envelope;      *)
(*   UsersSpec   the Users page with sort, create and update;              *)
(*   AuthSpec    the shared HTTP client and the auth provider, in the      *)
(*               backend-JWT variant and the identity-provider variant.    *)
(*                                                                         *)
(* React is modelled at the granularity of one event: an action is the     *)
(* handler, the re-render it causes and the effects of that render.        *)
(* The list query is the react-query observer of the page: it fetches      *)
(* when its key changes, de-duplicates refetch() while a fetch of the      *)
(* same key is in flight, and keeps the previous data while fetching.      *)
(* Cache entries of keys the observer has left are treated as collected.   *)
(***************************************************************************)
EXTENDS Integers, Sequences, FiniteSets, TLC

VARIABLES
    page,                 \* which list page is mounted
    locationState,        \* react-router location.state handed to the page
    searchTerm,           \* raw search input
    debouncedSearchTerm,  \* debounced derivative (pages that debounce)
    selected,             \* selected* filter values (in the panel)
    applied,              \* applied* filter values (in the query)
    showFilterPanel,
    isApplyingFilters,
    isClearingFilters,
    currentPage,
    itemsPerPage,
    sortField,
    sortOrder,
    isAddModalOpen,
    editingItem,          \* the item the add/edit modal was opened on, or NoItem
    mutating,             \* the create/update request in flight, or "none"
    timers,               \* pending setTimeout callbacks, oldest first
    fetchState,           \* "idle" | "fetching" for the observer's key
    data,                 \* last response the observer shows, or NoData
    failureCount,         \* failed attempts of the list request in flight
    responseShape,        \* envelope the backend answers with
    mutationError,        \* the page-scoped error message, "" when none
    deleteModalOpen,
    itemToDelete,         \* the item the delete modal was opened on, or NoItem
    mutationTarget,       \* address of the create/update request in flight
    deleting,             \* address of the delete request in flight, or "none"
    authVariant,          \* "jwt" (backend login) | "firebase" (identity provider)
    storage,              \* localStorage: auth_token and firebase_token
    user,                 \* AuthProvider state
    loading,              \* AuthProvider state
    effectRan,            \* the AuthProvider mount effect has run
    location,             \* window.location path
    firebaseUser,         \* auth.currentUser of the identity provider is set
    listenerPending,      \* an onAuthStateChanged callback is due
    requests,             \* requests of the HTTP client in flight
    idpCalls,             \* identity-provider SDK calls in flight
    session,              \* token of the session that exists, or NoToken
    variant,              \* the variant the detail page shows, or NoData
    variantFetch,         \* "idle" | "fetching" for ['variant', variantId]
    isEditModalOpen,
    isSellModalOpen,
    updating,             \* updateVariantMutation.isLoading
    sellError,            \* the error message of the sell form, "" when none
    phone,                \* sell form value customer.phone, as characters
    pincode,              \* sell form value customer.pincode, as characters
    formErrors,           \* the sell form shows validation errors
    sale,                 \* the create-sale request in flight, or NoSale
    salesInvalidated,     \* the 'sales' queries have been invalidated
    variantData,          \* keys with a value in the data handed to a mutation
    createForm,           \* values of the create-user form
    body,                 \* body of the last create / update request, or NoBody
    fieldErrors,          \* fields of the create-user form that show an error
    pageMounted           \* the page component is mounted

formVars == <<mutationError, deleteModalOpen, itemToDelete, mutationTarget, deleting>>

listVars == <<page, locationState, searchTerm, debouncedSearchTerm, selected,
              applied, showFilterPanel, isApplyingFilters, isClearingFilters,
              currentPage, itemsPerPage, sortField, sortOrder, isAddModalOpen,
              editingItem, mutating, timers, fetchState, data, failureCount,
              responseShape, formVars>>

authVars == <<authVariant, storage, user, loading, effectRan, location,
              firebaseUser, listenerPending, requests, idpCalls, session>>

detailVars == <<variant, variantFetch, isEditModalOpen, isSellModalOpen, updating,
                sellError, phone, pincode, formErrors, sale, salesInvalidated>>

restVars == <<variantData, createForm, body, fieldErrors, pageMounted>>

vars == <<listVars, authVars, detailVars, restVars>>

----------------------------------------------------------------------------
(* Bounds *)

MaxTotal == 25      \* largest number of items the server holds for a query
MaxSortTimers == 1  \* pending 50 ms sort callbacks kept at a time
MaxFilterFields == 1 \* filter fields of a page that are modelled
MaxRequests == 2    \* HTTP requests and identity-provider calls in flight
MaxPhoneLen == 11   \* longest customer phone entered in the sell form
MaxPincodeLen == 7  \* longest pincode entered in the sell form
MaxExtraKeys == 1   \* item keys, besides _id, in the data handed to a mutation

----------------------------------------------------------------------------
(* Constants of the program *)

Pages == {"Users", "Variants", "Products", "ProductVariants", "Sales"}

DEFAULT_PAGE_SIZE == 10

PAGE_SIZE_OPTIONS == {10, 20}

InitialItemsPerPage(p) == IF p = "ProductVariants" THEN 20 ELSE DEFAULT_PAGE_SIZE

SearchValues == {"", "a"}

FilterValues == {"", "Mahadevapura"}

\* the filter fields of each page's panel
FilterFields(p) ==
    CASE p = "Users"           -> <<"role", "status">>
      [] p = "Variants"        -> <<"branch", "brand", "category">>
      [] p = "Products"        -> <<"category", "brand", "dateRange">>
      [] p = "ProductVariants" -> <<"branch">>
      [] p = "Sales"           -> <<"branch", "brand", "dateRange">>
      [] p = "VariantDetail"   -> <<>>

FilterKeys(p) ==
    {FilterFields(p)[i] : i \in 1..(IF Len(FilterFields(p)) < MaxFilterFields
                                      THEN Len(FilterFields(p)) ELSE MaxFilterFields)}

EmptyFilters(p) == [k \in FilterKeys(p) |-> ""]

SortFields == {"firstName", "email", "updatedAt"}

ResponseShapes == {"data_total", "items_count"}

ServerTotals == {0, MaxTotal}

NoData == [none |-> TRUE]

NoState == [none |-> TRUE]

NoItem == [uid |-> "", _id |-> ""]

NoSale == [none |-> TRUE]

NoBody == [none |-> TRUE]

\* the create-user form before anything is typed
EmptyForm == [password |-> "", confirmPassword |-> "", rest |-> FALSE]

\* items as the backends return them: with a uid, a database _id, or both
Items == {[uid |-> "u1", _id |-> "i1"], [uid |-> "", _id |-> "i1"],
          [uid |-> "u1", _id |-> ""]}

\* pages whose query uses a debounced copy of the search input
DebouncedPages == {"Users", "Products", "ProductVariants"}

\* pages with an effect that resets currentPage when filters or search change
ResetEffectPages == {"Variants", "Products", "ProductVariants"}

Delay(kind) ==
    CASE kind = "sort"     -> 50
      [] kind = "apply"    -> 100
      [] kind = "clear"    -> 100
      [] kind = "debounce" -> IF page = "Users" THEN 300 ELSE 500
      [] kind = "banner"   -> 2000

CeilDiv(a, b) == (a + b - 1) \div b

Min(a, b) == IF a < b THEN a ELSE b

Max(a, b) == IF a > b THEN a ELSE b

----------------------------------------------------------------------------
(* The list query *)

\* the react-query key of the page's list query
QueryKey ==
    CASE page = "Users" ->
           [search |-> debouncedSearchTerm, filters |-> applied,
            page |-> currentPage, skip |-> 0, limit |-> itemsPerPage,
            sortField |-> sortField, sortOrder |-> sortOrder]
      [] page = "Variants" ->
           [search |-> searchTerm, filters |-> applied,
            page |-> 0, skip |-> (currentPage - 1) * itemsPerPage,
            limit |-> itemsPerPage, sortField |-> "", sortOrder |-> ""]
      [] page \in {"Products", "ProductVariants"} ->
           [search |-> debouncedSearchTerm, filters |-> applied,
            page |-> 0, skip |-> (currentPage - 1) * itemsPerPage,
            limit |-> itemsPerPage, sortField |-> "", sortOrder |-> ""]
      [] page = "Sales" ->
           [search |-> "", filters |-> applied, page |-> 0, skip |-> 0,
            limit |-> 0, sortField |-> "", sortOrder |-> ""]

\* the search value the list depends on
DrivingSearch ==
    IF page \in DebouncedPages THEN debouncedSearchTerm ELSE searchTerm

\* number of items on the page the backend returns for request key k when n
\* items match the query (the Sales endpoint is not paginated)
ItemsInResponse(k, n) ==
    CASE page = "Users" -> Max(0, Min(k.limit, n - (k.page - 1) * k.limit))
      [] page = "Sales" -> n
      [] OTHER          -> Max(0, Min(k.limit, n - k.skip))

\* what a queryFn resolves to, as far as the pages read it: the length of the
\* item array, the count and totalPages fields (0 where the page finds none),
\* for the Sales page the number of items matching the search value "a", and
\* serverCount, the count the backend sent (kept for the properties only)
Result(items, count, pages, matching, n) ==
    [items |-> items, count |-> count, totalPages |-> pages,
     matching |-> matching, serverCount |-> n]

\* userService.searchUsers: reads items and count of the envelope and builds
\* {data, total, page, limit, totalPages}
searchUsers(k, n) ==
    LET items == IF responseShape = "items_count" THEN ItemsInResponse(k, n) ELSE 0
        count == IF responseShape = "items_count" THEN n ELSE 0
    IN Result(items, count, CeilDiv(count, k.limit), 0, n)

\* productsApi.getAllProducts / variantsApi.getAllVariants:
\* response.data.items || response.data.data || response.data, an array
getAllArray(k, n) == Result(ItemsInResponse(k, n), 0, 0, 0, n)

\* Variants page queryFn: response.data as it is; the page reads items, count
variantsSearch(k, n) ==
    IF responseShape = "items_count"
      THEN Result(ItemsInResponse(k, n), n, 0, 0, n)
      ELSE Result(0, 0, 0, 0, n)

\* salesApi.getAllSales: response.data as it is; the page reads items, count
getAllSales(k, n, m) ==
    IF responseShape = "items_count"
      THEN Result(ItemsInResponse(k, n), n, 0, m, n)
      ELSE Result(0, 0, 0, 0, n)

QueryFn(k, n, m) ==
    CASE page = "Users"    -> searchUsers(k, n)
      [] page = "Variants" -> variantsSearch(k, n)
      [] page = "Sales"    -> getAllSales(k, n, m)
      [] OTHER             -> getAllArray(k, n)

\* rows of the Sales page after its client-side search filter
filteredItems ==
    IF data = NoData THEN 0
    ELSE IF searchTerm = "" THEN data.items ELSE data.matching

totalItems ==
    IF data = NoData THEN 0
    ELSE CASE page = "Users"    -> data.count
           [] page = "Variants" -> data.count
           [] page = "Sales"    -> filteredItems
           [] OTHER             -> data.items * currentPage

totalPages ==
    IF page = "Users"
      THEN IF data = NoData THEN 0 ELSE data.totalPages
      ELSE CeilDiv(totalItems, itemsPerPage)

\* rows the table shows
paginatedItems ==
    IF data = NoData THEN 0
    ELSE IF page = "Sales"
      THEN Max(0, Min(itemsPerPage, filteredItems - (currentPage - 1) * itemsPerPage))
      ELSE data.items

\* the observer after the re-render that ends a handler; refetchCalled says
\* the handler called refetch() before that re-render
ObserverUpdate(refetchCalled) ==
    /\ data' = data
    /\ failureCount' = IF QueryKey' # QueryKey \/ (refetchCalled /\ fetchState = "idle")
                          THEN 0 ELSE failureCount
    /\ fetchState' = IF QueryKey' # QueryKey \/ refetchCalled THEN "fetching"
                                                              ELSE fetchState

\* number of list requests a handler sends
RequestsSent(refetchCalled) ==
    (IF refetchCalled /\ fetchState = "idle" THEN 1 ELSE 0)
    + (IF QueryKey' # QueryKey THEN 1 ELSE 0)

----------------------------------------------------------------------------
(* Initial state: the page after its first render *)

LocationStates ==
    {NoState} \cup
    {[searchTerm |-> s, filters |-> f] :
        s \in SearchValues, f \in [FilterKeys("Variants") -> FilterValues]}

\* no form has been filled in and no create / update request was sent
NoPayload ==
    /\ variantData = {}
    /\ createForm = EmptyForm
    /\ body = NoBody
    /\ fieldErrors = {}

\* no variant detail page is mounted
NoDetailPage ==
    /\ variant = NoData
    /\ variantFetch = "idle"
    /\ isEditModalOpen = FALSE
    /\ isSellModalOpen = FALSE
    /\ updating = FALSE
    /\ sellError = ""
    /\ phone = <<>>
    /\ pincode = <<>>
    /\ formErrors = FALSE
    /\ sale = NoSale
    /\ salesInvalidated = FALSE

\* state after the first render of a list page; the callers fix the envelope
ListInit ==
    /\ NoDetailPage
    /\ NoPayload
    /\ pageMounted = TRUE
    /\ page \in Pages
    /\ locationState \in IF page = "Variants" THEN LocationStates ELSE {NoState}
    /\ searchTerm = ""
    /\ debouncedSearchTerm = ""
    /\ selected = EmptyFilters(page)
    /\ applied = EmptyFilters(page)
    /\ showFilterPanel = FALSE
    /\ isApplyingFilters = FALSE
    /\ isClearingFilters = FALSE
    /\ currentPage = 1
    /\ itemsPerPage = InitialItemsPerPage(page)
    /\ sortField = IF page = "Users" THEN "updatedAt" ELSE ""
    /\ sortOrder = IF page = "Users" THEN "desc" ELSE ""
    /\ isAddModalOpen = FALSE
    /\ editingItem = NoItem
    /\ mutating = "none"
    /\ mutationError = ""
    /\ deleteModalOpen = FALSE
    /\ itemToDelete = NoItem
    /\ mutationTarget = ""
    /\ deleting = "none"
    /\ timers = <<>>
    /\ fetchState = "fetching"
    /\ data = NoData
    /\ failureCount = 0

NoToken == "null"

NoUser == "null"

\* a list page is mounted behind the protected route: a session exists
SignedIn ==
    /\ authVariant = "jwt"
    /\ storage = [auth_token |-> "t1", firebase_token |-> NoToken]
    /\ user = "user"
    /\ loading = FALSE
    /\ effectRan = TRUE
    /\ location = "/dashboard"
    /\ firebaseUser = FALSE
    /\ listenerPending = FALSE
    /\ requests = <<>>
    /\ idpCalls = <<>>
    /\ session = "t1"

\* the backend of today answers list requests with {items, count}
Init ==
    /\ responseShape = "items_count"
    /\ ListInit
    /\ SignedIn

----------------------------------------------------------------------------
(* Helpers for delayed callbacks *)

Timer(kind, arg) == [kind |-> kind, arg |-> arg]

\* the callback at position i may run: nothing set earlier with a delay that
\* is not longer is still pending
MayFire(i) ==
    \A j \in 1..(i - 1) : Delay(timers[j].kind) > Delay(timers[i].kind)

RemoveAt(s, i) == SubSeq(s, 1, i - 1) \o SubSeq(s, i + 1, Len(s))

WithoutKind(s, kind) == SelectSeq(s, LAMBDA t : t.kind # kind)

\* the page behind the filter panel backdrop and the modal can be used
PageInteractive == ~showFilterPanel /\ ~isAddModalOpen /\ ~deleteModalOpen

----------------------------------------------------------------------------
(* Variants page: restore search and filters handed over in location.state *)

RestoreState ==
    /\ locationState # NoState
    /\ searchTerm' = IF locationState.searchTerm # "" THEN locationState.searchTerm
                                                     ELSE searchTerm
    /\ selected' = [k \in FilterKeys(page) |->
                      IF locationState.filters[k] # "" THEN locationState.filters[k]
                                                       ELSE selected[k]]
    /\ applied' = [k \in FilterKeys(page) |->
                      IF locationState.filters[k] # "" THEN locationState.filters[k]
                                                       ELSE applied[k]]
    /\ locationState' = NoState
    /\ currentPage' = 1
    /\ UNCHANGED <<authVars, detailVars, restVars, formVars, page, debouncedSearchTerm, showFilterPanel, isApplyingFilters,
                   isClearingFilters, itemsPerPage, sortField, sortOrder,
                   isAddModalOpen, editingItem, mutating, timers, responseShape>>
    /\ ObserverUpdate(FALSE)

----------------------------------------------------------------------------
(* Search *)

\* onChange of the search input: setSearchTerm, then the effects of the render
TypeSearch(v) ==
    /\ PageInteractive
    /\ v # searchTerm
    /\ searchTerm' = v
    /\ IF page \in DebouncedPages
         THEN /\ timers' = Append(WithoutKind(timers, "debounce"), Timer("debounce", v))
              /\ currentPage' = currentPage
         ELSE /\ timers' = timers
              /\ currentPage' = IF page \in ResetEffectPages THEN 1 ELSE currentPage
    /\ UNCHANGED <<authVars, detailVars, restVars, formVars, page, locationState, debouncedSearchTerm, selected, applied,
                   showFilterPanel, isApplyingFilters, isClearingFilters,
                   itemsPerPage, sortField, sortOrder, isAddModalOpen, editingItem,
                   mutating, responseShape>>
    /\ ObserverUpdate(FALSE)

\* the debounce timeout runs: setDebouncedSearchTerm(value)
DebounceFire(i) ==
    /\ i \in 1..Len(timers)
    /\ timers[i].kind = "debounce"
    /\ MayFire(i)
    /\ debouncedSearchTerm' = timers[i].arg
    /\ timers' = RemoveAt(timers, i)
    /\ currentPage' = IF page \in ResetEffectPages /\ timers[i].arg # debouncedSearchTerm
                        THEN 1 ELSE currentPage
    /\ UNCHANGED <<authVars, detailVars, restVars, formVars, page, locationState, searchTerm, selected, applied,
                   showFilterPanel, isApplyingFilters, isClearingFilters,
                   itemsPerPage, sortField, sortOrder, isAddModalOpen, editingItem,
                   mutating, responseShape>>
    /\ ObserverUpdate(FALSE)

----------------------------------------------------------------------------
(* Filter panel *)

OpenFilterPanel ==
    /\ PageInteractive
    /\ showFilterPanel' = TRUE
    /\ UNCHANGED <<authVars, detailVars, restVars, failureCount, formVars, page, locationState, searchTerm, debouncedSearchTerm, selected,
                   applied, isApplyingFilters, isClearingFilters, currentPage,
                   itemsPerPage, sortField, sortOrder, isAddModalOpen, editingItem,
                   mutating, timers, fetchState, data,
                   responseShape>>

CloseFilterPanel ==
    /\ showFilterPanel
    /\ showFilterPanel' = FALSE
    /\ UNCHANGED <<authVars, detailVars, restVars, failureCount, formVars, page, locationState, searchTerm, debouncedSearchTerm, selected,
                   applied, isApplyingFilters, isClearingFilters, currentPage,
                   itemsPerPage, sortField, sortOrder, isAddModalOpen, editingItem,
                   mutating, timers, fetchState, data,
                   responseShape>>

\* handleFilterFieldChange as a single-phase filter would write it: the edit is
\* committed to the applied value at once
handleFilterFieldChange_commits(key, value) ==
    /\ showFilterPanel
    /\ key \in FilterKeys(page)
    /\ value # selected[key]
    /\ selected' = [selected EXCEPT ![key] = value]
    /\ applied' = [applied EXCEPT ![key] = value]
    /\ currentPage' = currentPage
    /\ UNCHANGED <<authVars, detailVars, restVars, formVars, page, locationState, searchTerm, debouncedSearchTerm,
                   showFilterPanel, isApplyingFilters, isClearingFilters,
                   itemsPerPage, sortField, sortOrder, isAddModalOpen,
                   editingItem, mutating, timers, responseShape>>
    /\ ObserverUpdate(FALSE)

handleFilterFieldChange(key, value) ==
    /\ showFilterPanel
    /\ key \in FilterKeys(page)
    /\ value # selected[key]
    /\ selected' = [selected EXCEPT ![key] = value]
    /\ UNCHANGED <<authVars, detailVars, restVars, formVars, page, locationState, searchTerm, debouncedSearchTerm, applied,
                   showFilterPanel, isApplyingFilters, isClearingFilters,
                   currentPage, itemsPerPage, sortField, sortOrder, isAddModalOpen,
                   editingItem, mutating, timers, responseShape>>
    /\ ObserverUpdate(FALSE)

\* the isApplyDisabled prop each page hands to the panel
isApplyDisabled ==
    IF page = "ProductVariants" THEN ~(selected # applied) ELSE FALSE

\* FilterPanel: the disabled prop of the Apply button
ApplyButtonDisabled == isApplyDisabled /\ ~isApplyingFilters

\* Button: a button that shows its loading state does not take clicks
ButtonInert(disabled, isLoading) == disabled \/ isLoading

\* applyFilters without its setCurrentPage(1); the reset effect of the pages
\* that have one still runs
applyFilters_keepsPage ==
    /\ showFilterPanel
    /\ ~ButtonInert(ApplyButtonDisabled, isApplyingFilters)
    /\ page = "ProductVariants" => selected # applied
    /\ isApplyingFilters' = TRUE
    /\ IF page = "Sales"
         THEN /\ timers' = Append(timers, Timer("apply", selected))
              /\ UNCHANGED <<applied, currentPage>>
         ELSE /\ timers' = Append(timers, Timer("apply", ""))
              /\ applied' = selected
              /\ currentPage' = IF page \in ResetEffectPages /\ selected # applied
                                  THEN 1 ELSE currentPage
    /\ UNCHANGED <<authVars, detailVars, restVars, formVars, page, locationState, searchTerm, debouncedSearchTerm, selected,
                   showFilterPanel, isClearingFilters, itemsPerPage, sortField,
                   sortOrder, isAddModalOpen, editingItem, mutating, responseShape>>
    /\ ObserverUpdate(FALSE)

applyFilters ==
    /\ showFilterPanel
    /\ ~ButtonInert(ApplyButtonDisabled, isApplyingFilters)
    /\ page = "ProductVariants" => selected # applied
    /\ isApplyingFilters' = TRUE
    /\ IF page = "Sales"
         THEN /\ timers' = Append(timers, Timer("apply", selected))
              /\ UNCHANGED <<applied, currentPage>>
         ELSE /\ timers' = Append(timers, Timer("apply", ""))
              /\ applied' = selected
              /\ currentPage' = 1
    /\ UNCHANGED <<authVars, detailVars, restVars, formVars, page, locationState, searchTerm, debouncedSearchTerm, selected,
                   showFilterPanel, isClearingFilters, itemsPerPage, sortField,
                   sortOrder, isAddModalOpen, editingItem, mutating, responseShape>>
    /\ ObserverUpdate(FALSE)

clearFilters ==
    /\ showFilterPanel
    /\ ~ButtonInert(FALSE, isClearingFilters)
    /\ isClearingFilters' = TRUE
    /\ IF page = "Sales"
         THEN UNCHANGED <<selected, applied, currentPage>>
         ELSE /\ selected' = EmptyFilters(page)
              /\ applied' = EmptyFilters(page)
              /\ currentPage' = 1
    /\ UNCHANGED <<authVars, detailVars, restVars, formVars, page, locationState, searchTerm, debouncedSearchTerm,
                   showFilterPanel, isApplyingFilters, itemsPerPage, sortField,
                   sortOrder, isAddModalOpen, editingItem, mutating, responseShape>>
    /\ timers' = Append(timers, Timer("clear", [hadFilter |-> applied # EmptyFilters(page),
                                                 sent |-> RequestsSent(FALSE)]))
    /\ ObserverUpdate(FALSE)

\* the 100 ms timeout of applyFilters runs
ApplyTimerFire(i) ==
    /\ i \in 1..Len(timers)
    /\ timers[i].kind = "apply"
    /\ MayFire(i)
    /\ timers' = RemoveAt(timers, i)
    /\ isApplyingFilters' = FALSE
    /\ showFilterPanel' = FALSE
    /\ IF page = "Sales"
         THEN /\ applied' = timers[i].arg
              /\ currentPage' = 1
         ELSE UNCHANGED <<applied, currentPage>>
    /\ UNCHANGED <<authVars, detailVars, restVars, formVars, page, locationState, searchTerm, debouncedSearchTerm, selected,
                   isClearingFilters, itemsPerPage, sortField, sortOrder,
                   isAddModalOpen, editingItem, mutating, responseShape>>
    /\ ObserverUpdate(TRUE)

\* the 100 ms timeout of clearFilters runs
ClearTimerFire(i) ==
    /\ i \in 1..Len(timers)
    /\ timers[i].kind = "clear"
    /\ MayFire(i)
    /\ timers' = RemoveAt(timers, i)
    /\ isClearingFilters' = FALSE
    /\ showFilterPanel' = FALSE
    /\ IF page = "Sales"
         THEN /\ selected' = EmptyFilters(page)
              /\ applied' = EmptyFilters(page)
              /\ currentPage' = 1
         ELSE UNCHANGED <<selected, applied, currentPage>>
    /\ UNCHANGED <<authVars, detailVars, restVars, formVars, page, locationState, searchTerm, debouncedSearchTerm,
                   isApplyingFilters, itemsPerPage, sortField, sortOrder,
                   isAddModalOpen, editingItem, mutating, responseShape>>
    /\ ObserverUpdate(TRUE)

----------------------------------------------------------------------------
(* Sort (Users page) *)

handleSort(field) ==
    /\ page = "Users"
    /\ PageInteractive
    /\ field \in SortFields
    /\ Len(SelectSeq(timers, LAMBDA t : t.kind = "sort")) < MaxSortTimers
    /\ IF sortField = field
         THEN /\ sortOrder' = IF sortOrder = "asc" THEN "desc" ELSE "asc"
              /\ sortField' = sortField
         ELSE /\ sortField' = field
              /\ sortOrder' = "asc"
    /\ currentPage' = 1
    /\ timers' = Append(timers, Timer("sort", ""))
    /\ UNCHANGED <<authVars, detailVars, restVars, formVars, page, locationState, searchTerm, debouncedSearchTerm, selected,
                   applied, showFilterPanel, isApplyingFilters, isClearingFilters,
                   itemsPerPage, isAddModalOpen, editingItem, mutating,
                   responseShape>>
    /\ ObserverUpdate(FALSE)

\* the 50 ms timeout of handleSort runs: refetch()
SortTimerFire(i) ==
    /\ i \in 1..Len(timers)
    /\ timers[i].kind = "sort"
    /\ MayFire(i)
    /\ timers' = RemoveAt(timers, i)
    /\ UNCHANGED <<authVars, detailVars, restVars, formVars, page, locationState, searchTerm, debouncedSearchTerm, selected,
                   applied, showFilterPanel, isApplyingFilters, isClearingFilters,
                   currentPage, itemsPerPage, sortField, sortOrder, isAddModalOpen,
                   editingItem, mutating, responseShape>>
    /\ ObserverUpdate(TRUE)

----------------------------------------------------------------------------
(* Pagination controls *)

FirstPrevDisabled == currentPage = 1 \/ totalPages = 0

NextLastDisabled == currentPage = totalPages \/ totalPages = 0

PageSelectDisabled == totalPages <= 1

\* the pages the enabled controls pass to handlePageChange
PageChangeTargets ==
    (IF FirstPrevDisabled THEN {} ELSE {1, Max(1, currentPage - 1)})
    \cup (IF NextLastDisabled THEN {}
          ELSE {Min(totalPages, currentPage + 1), totalPages})
    \cup (IF PageSelectDisabled THEN {} ELSE 1..totalPages)

handlePageChange(p) ==
    /\ PageInteractive
    /\ p \in PageChangeTargets
    /\ p # currentPage
    /\ currentPage' = p
    /\ UNCHANGED <<authVars, detailVars, restVars, formVars, page, locationState, searchTerm, debouncedSearchTerm, selected,
                   applied, showFilterPanel, isApplyingFilters, isClearingFilters,
                   itemsPerPage, sortField, sortOrder, isAddModalOpen, editingItem,
                   mutating, timers, responseShape>>
    /\ ObserverUpdate(FALSE)

handleItemsPerPageChange(newLimit) ==
    /\ PageInteractive
    /\ newLimit \in PAGE_SIZE_OPTIONS
    /\ newLimit # itemsPerPage
    /\ itemsPerPage' = newLimit
    /\ currentPage' = 1
    /\ UNCHANGED <<authVars, detailVars, restVars, formVars, page, locationState, searchTerm, debouncedSearchTerm, selected,
                   applied, showFilterPanel, isApplyingFilters, isClearingFilters,
                   sortField, sortOrder, isAddModalOpen, editingItem, mutating,
                   timers, responseShape>>
    /\ ObserverUpdate(FALSE)

----------------------------------------------------------------------------
(* The list request *)

\* the Refresh button: refetch()
Refresh ==
    /\ PageInteractive
    /\ fetchState = "idle"
    /\ UNCHANGED <<authVars, detailVars, restVars, formVars, page, locationState, searchTerm, debouncedSearchTerm, selected,
                   applied, showFilterPanel, isApplyingFilters, isClearingFilters,
                   currentPage, itemsPerPage, sortField, sortOrder, isAddModalOpen,
                   editingItem, mutating, timers, responseShape>>
    /\ ObserverUpdate(TRUE)

\* FetchSuccess with the list that was loaded first kept
FetchSuccess_firstWins(n, m) ==
    /\ fetchState = "fetching"
    /\ n \in ServerTotals
    /\ m \in IF page = "Sales" THEN {x \in ServerTotals : x <= n} ELSE {0}
    /\ data' = IF data = NoData THEN QueryFn(QueryKey, n, m) ELSE data
    /\ fetchState' = "idle"
    /\ failureCount' = 0
    /\ UNCHANGED <<authVars, detailVars, restVars, formVars, page, locationState, searchTerm, debouncedSearchTerm, selected,
                   applied, showFilterPanel, isApplyingFilters, isClearingFilters,
                   currentPage, itemsPerPage, sortField, sortOrder, isAddModalOpen,
                   editingItem, mutating, timers, responseShape>>

\* the response to the observer's request lands; n items match the query
FetchSuccess(n, m) ==
    /\ fetchState = "fetching"
    /\ n \in ServerTotals
    /\ m \in IF page = "Sales" THEN {x \in ServerTotals : x <= n} ELSE {0}
    /\ data' = QueryFn(QueryKey, n, m)
    /\ fetchState' = "idle"
    /\ failureCount' = 0
    /\ UNCHANGED <<authVars, detailVars, restVars, formVars, page, locationState, searchTerm, debouncedSearchTerm, selected,
                   applied, showFilterPanel, isApplyingFilters, isClearingFilters,
                   currentPage, itemsPerPage, sortField, sortOrder, isAddModalOpen,
                   editingItem, mutating, timers, responseShape>>

----------------------------------------------------------------------------
(* Create and update (Users page) *)

\* what the server says about a failure; "" when it gives no message
ServerMessages == {"", "Validation failed"}

\* retry of the query defaults of new QueryClient(): a failed query request is
\* sent again, up to three times
DefaultRetry == 3

Noun ==
    CASE page = "Users"    -> "user"
      [] page = "Products" -> "product"
      [] OTHER             -> "variant"

\* the generic message of a failed operation
Fallback(operation) == "Failed to " \o operation \o " " \o Noun

\* err.response?.data?.message || fallback
ErrorMessage(message, fallback) == IF message # "" THEN message ELSE fallback

\* pages with the effect that dismisses mutationError after 2 s
AutoDismissPages == {"Users", "Variants", "Products", "ProductVariants"}

\* setMutationError(message) and the auto-dismiss effect of the re-render: a
\* changed message clears the pending timeout and, when not empty, sets one
setMutationError(message) ==
    /\ mutationError' = message
    /\ timers' =
         IF message = mutationError \/ page \notin AutoDismissPages THEN timers
         ELSE IF message = "" THEN WithoutKind(timers, "banner")
         ELSE Append(WithoutKind(timers, "banner"), Timer("banner", ""))

\* the list request of the Users page fails: the retryer sends it again after
\* its delay while failureCount is below the retry default, and only then is
\* the query's onError called
FetchError(message) ==
    /\ page = "Users"
    /\ fetchState = "fetching"
    /\ failureCount' = failureCount + 1
    /\ IF failureCount < DefaultRetry
         THEN /\ fetchState' = "fetching"
              /\ UNCHANGED <<mutationError, timers>>
         ELSE /\ fetchState' = "idle"
              /\ setMutationError(ErrorMessage(message, "Failed to fetch users"))
    /\ UNCHANGED <<authVars, detailVars, restVars, page, locationState, searchTerm,
                   debouncedSearchTerm, selected, applied, showFilterPanel,
                   isApplyingFilters, isClearingFilters, currentPage,
                   itemsPerPage, sortField, sortOrder, isAddModalOpen,
                   editingItem, mutating, data, responseShape, deleteModalOpen,
                   itemToDelete, mutationTarget, deleting>>

\* the 2 s timeout of the auto-dismiss effect runs
BannerTimerFire(i) ==
    /\ i \in 1..Len(timers)
    /\ timers[i].kind = "banner"
    /\ MayFire(i)
    /\ mutationError' = ""
    /\ timers' = RemoveAt(timers, i)
    /\ UNCHANGED <<authVars, detailVars, restVars, failureCount, page, locationState, searchTerm, debouncedSearchTerm, selected,
                   applied, showFilterPanel, isApplyingFilters, isClearingFilters,
                   currentPage, itemsPerPage, sortField, sortOrder, isAddModalOpen,
                   editingItem, mutating, fetchState, data, responseShape,
                   deleteModalOpen, itemToDelete, mutationTarget, deleting>>

handleAddUser ==
    /\ page = "Users"
    /\ PageInteractive
    /\ editingItem' = NoItem
    /\ isAddModalOpen' = TRUE
    /\ UNCHANGED <<authVars, detailVars, restVars, failureCount, formVars, page, locationState, searchTerm, debouncedSearchTerm, selected,
                   applied, showFilterPanel, isApplyingFilters, isClearingFilters,
                   currentPage, itemsPerPage, sortField, sortOrder, mutating,
                   timers, fetchState, data, responseShape>>

handleEditUser ==
    /\ page = "Users"
    /\ PageInteractive
    /\ paginatedItems > 0
    /\ editingItem' \in Items
    /\ isAddModalOpen' = TRUE
    /\ UNCHANGED <<authVars, detailVars, restVars, failureCount, formVars, page, locationState, searchTerm, debouncedSearchTerm, selected,
                   applied, showFilterPanel, isApplyingFilters, isClearingFilters,
                   currentPage, itemsPerPage, sortField, sortOrder, mutating,
                   timers, fetchState, data, responseShape>>

handleCloseModal ==
    /\ page = "Users"
    /\ isAddModalOpen
    /\ isAddModalOpen' = FALSE
    /\ editingItem' = NoItem
    /\ setMutationError("")
    /\ createForm' = EmptyForm
    /\ fieldErrors' = {}
    /\ UNCHANGED <<authVars, detailVars, variantData, body, pageMounted, failureCount, page,
                   locationState, searchTerm, debouncedSearchTerm, selected,
                   applied, showFilterPanel, isApplyingFilters, isClearingFilters,
                   currentPage, itemsPerPage, sortField, sortOrder, mutating,
                   fetchState, data, responseShape, deleteModalOpen,
                   itemToDelete, mutationTarget, deleting>>

\* onSubmitCreate / onSubmitUpdate: the form is valid and mutate() is called
SubmitUser ==
    /\ page = "Users"
    /\ isAddModalOpen
    /\ mutating = "none"
    /\ mutating' = IF editingItem # NoItem THEN "update" ELSE "create"
    /\ mutationTarget' = editingItem._id
    /\ UNCHANGED <<authVars, detailVars, restVars, failureCount, page, locationState, searchTerm, debouncedSearchTerm, selected,
                   applied, showFilterPanel, isApplyingFilters, isClearingFilters,
                   currentPage, itemsPerPage, sortField, sortOrder, isAddModalOpen,
                   editingItem, timers, fetchState, data, responseShape,
                   mutationError, deleteModalOpen, itemToDelete, deleting>>

\* createUserMutation / updateUserMutation onSuccess
UserMutationSuccess ==
    /\ page = "Users"
    /\ mutating # "none"
    /\ mutating' = "none"
    /\ mutationTarget' = ""
    /\ isAddModalOpen' = FALSE
    /\ setMutationError("")
    /\ sortField' = "updatedAt"
    /\ sortOrder' = "desc"
    /\ UNCHANGED <<authVars, detailVars, restVars, page, locationState, searchTerm, debouncedSearchTerm, selected,
                   applied, showFilterPanel, isApplyingFilters, isClearingFilters,
                   currentPage, itemsPerPage, editingItem, responseShape,
                   deleteModalOpen, itemToDelete, deleting>>
    /\ ObserverUpdate(TRUE)

\* createUserMutation / updateUserMutation onError
UserMutationError(message) ==
    /\ page = "Users"
    /\ mutating # "none"
    /\ mutating' = "none"
    /\ mutationTarget' = ""
    /\ setMutationError(ErrorMessage(message, Fallback(mutating)))
    /\ UNCHANGED <<authVars, detailVars, restVars, failureCount, page, locationState, searchTerm, debouncedSearchTerm, selected,
                   applied, showFilterPanel, isApplyingFilters, isClearingFilters,
                   currentPage, itemsPerPage, sortField, sortOrder, isAddModalOpen,
                   editingItem, fetchState, data, responseShape,
                   deleteModalOpen, itemToDelete, deleting>>

----------------------------------------------------------------------------
(* Create and update through ProductForm / VariantForm, and delete *)

\* pages whose add/edit modal is ProductForm or VariantForm
FormPages == {"Products", "Variants", "ProductVariants"}

\* pages with a delete mutation
DeletePages == {"Users", "Products", "ProductVariants"}

\* a || b on identifiers, "" being absent
Or(a, b) == IF a # "" THEN a ELSE b

\* handleAddProduct / handleAddVariant
handleAdd ==
    /\ page \in FormPages
    /\ PageInteractive
    /\ editingItem' = NoItem
    /\ isAddModalOpen' = TRUE
    /\ UNCHANGED <<authVars, detailVars, restVars, failureCount, formVars, page, locationState, searchTerm, debouncedSearchTerm,
                   selected, applied, showFilterPanel, isApplyingFilters,
                   isClearingFilters, currentPage, itemsPerPage, sortField,
                   sortOrder, mutating, timers, fetchState, data, responseShape>>

\* handleEditProduct / ProductVariantsPage.handleEditVariant (the Variants
\* page leaves for the detail page instead)
handleEdit(item) ==
    /\ page \in FormPages \ {"Variants"}
    /\ PageInteractive
    /\ paginatedItems > 0
    /\ editingItem' = item
    /\ isAddModalOpen' = TRUE
    /\ UNCHANGED <<authVars, detailVars, restVars, failureCount, formVars, page, locationState, searchTerm, debouncedSearchTerm,
                   selected, applied, showFilterPanel, isApplyingFilters,
                   isClearingFilters, currentPage, itemsPerPage, sortField,
                   sortOrder, mutating, timers, fetchState, data, responseShape>>

\* what ProductForm / VariantForm hand to onSave: the form values, which hold
\* no uid, and _id: item?._id || ''
FormData == [uid |-> "", _id |-> editingItem._id]

\* handleSaveProduct / handleSaveVariant: isEdit
isEdit(formData) == formData.uid # "" \/ formData._id # ""

\* ProductForm / VariantForm onSubmit with valid values: onSave, which is
\* handleSaveProduct / handleSaveVariant, then handleClose
onSubmit ==
    /\ page \in FormPages
    /\ isAddModalOpen
    /\ ~ButtonInert(FALSE, mutating # "none")
    /\ mutating' = IF isEdit(FormData) THEN "update" ELSE "create"
    /\ mutationTarget' = IF isEdit(FormData) THEN Or(FormData.uid, FormData._id)
                                             ELSE ""
    /\ isAddModalOpen' = FALSE
    /\ setMutationError("")
    /\ UNCHANGED <<authVars, detailVars, restVars, failureCount, page, locationState, searchTerm, debouncedSearchTerm,
                   selected, applied, showFilterPanel, isApplyingFilters,
                   isClearingFilters, currentPage, itemsPerPage, sortField,
                   sortOrder, editingItem, fetchState, data, responseShape,
                   deleteModalOpen, itemToDelete, deleting>>

\* ProductForm / VariantForm handleClose from the modal's close control
handleClose ==
    /\ page \in FormPages
    /\ isAddModalOpen
    /\ isAddModalOpen' = FALSE
    /\ UNCHANGED <<authVars, detailVars, restVars, failureCount, formVars, page, locationState, searchTerm, debouncedSearchTerm,
                   selected, applied, showFilterPanel, isApplyingFilters,
                   isClearingFilters, currentPage, itemsPerPage, sortField,
                   sortOrder, editingItem, mutating, timers, fetchState, data,
                   responseShape>>

\* FormMutationSuccess without its setMutationError('')
FormMutationSuccess_keepsError ==
    /\ page \in FormPages
    /\ mutating # "none"
    /\ mutating' = "none"
    /\ mutationTarget' = ""
    /\ isAddModalOpen' = FALSE
    /\ UNCHANGED <<mutationError, timers>>
    /\ UNCHANGED <<authVars, detailVars, restVars, page, locationState, searchTerm, debouncedSearchTerm,
                   selected, applied, showFilterPanel, isApplyingFilters,
                   isClearingFilters, currentPage, itemsPerPage, sortField,
                   sortOrder, editingItem, responseShape, deleteModalOpen,
                   itemToDelete, deleting>>
    /\ ObserverUpdate(TRUE)

\* onSuccess of the create / update mutation of a form page
FormMutationSuccess ==
    /\ page \in FormPages
    /\ mutating # "none"
    /\ mutating' = "none"
    /\ mutationTarget' = ""
    /\ isAddModalOpen' = FALSE
    /\ setMutationError("")
    /\ UNCHANGED <<authVars, detailVars, restVars, page, locationState, searchTerm, debouncedSearchTerm,
                   selected, applied, showFilterPanel, isApplyingFilters,
                   isClearingFilters, currentPage, itemsPerPage, sortField,
                   sortOrder, editingItem, responseShape, deleteModalOpen,
                   itemToDelete, deleting>>
    /\ ObserverUpdate(TRUE)

\* onError of the create / update mutation of a form page
FormMutationError(message) ==
    /\ page \in FormPages
    /\ mutating # "none"
    /\ mutating' = "none"
    /\ mutationTarget' = ""
    /\ setMutationError(ErrorMessage(message, Fallback(mutating)))
    /\ UNCHANGED <<authVars, detailVars, restVars, failureCount, page, locationState, searchTerm, debouncedSearchTerm,
                   selected, applied, showFilterPanel, isApplyingFilters,
                   isClearingFilters, currentPage, itemsPerPage, sortField,
                   sortOrder, isAddModalOpen, editingItem, fetchState, data,
                   responseShape, deleteModalOpen, itemToDelete, deleting>>

\* handleDeleteUser / handleDeleteProduct / handleDeleteVariant
handleDelete(item) ==
    /\ page \in DeletePages
    /\ PageInteractive
    /\ paginatedItems > 0
    /\ itemToDelete' = item
    /\ deleteModalOpen' = TRUE
    /\ UNCHANGED <<authVars, detailVars, restVars, failureCount, page, locationState, searchTerm, debouncedSearchTerm,
                   selected, applied, showFilterPanel, isApplyingFilters,
                   isClearingFilters, currentPage, itemsPerPage, sortField,
                   sortOrder, isAddModalOpen, editingItem, mutating, timers,
                   fetchState, data, responseShape, mutationError,
                   mutationTarget, deleting>>

\* the address confirmDelete* hands to mutate(): the Users page takes _id,
\* the others uid || _id
DeleteAddress(item) ==
    IF page = "Users" THEN item._id ELSE Or(item.uid, item._id)

\* confirmDeleteUser / confirmDeleteProduct / confirmDeleteVariant
confirmDelete ==
    /\ page \in DeletePages
    /\ deleteModalOpen
    /\ deleting = "none"
    /\ deleteModalOpen' = FALSE
    /\ IF itemToDelete # NoItem
         THEN /\ setMutationError("")
              /\ itemToDelete' = NoItem
              /\ deleting' = IF page = "Users" \/ DeleteAddress(itemToDelete) # ""
                               THEN DeleteAddress(itemToDelete) ELSE "none"
         ELSE UNCHANGED <<mutationError, timers, itemToDelete, deleting>>
    /\ UNCHANGED <<authVars, detailVars, restVars, failureCount, page, locationState, searchTerm, debouncedSearchTerm,
                   selected, applied, showFilterPanel, isApplyingFilters,
                   isClearingFilters, currentPage, itemsPerPage, sortField,
                   sortOrder, isAddModalOpen, editingItem, mutating, fetchState,
                   data, responseShape, mutationTarget>>

\* DeleteConfirmationModal onClose
closeDeleteModal ==
    /\ deleteModalOpen
    /\ deleteModalOpen' = FALSE
    /\ UNCHANGED <<authVars, detailVars, restVars, failureCount, page, locationState, searchTerm, debouncedSearchTerm,
                   selected, applied, showFilterPanel, isApplyingFilters,
                   isClearingFilters, currentPage, itemsPerPage, sortField,
                   sortOrder, isAddModalOpen, editingItem, mutating, timers,
                   fetchState, data, responseShape, mutationError, itemToDelete,
                   mutationTarget, deleting>>

\* onSuccess of the delete mutation
DeleteSuccess ==
    /\ deleting # "none"
    /\ deleting' = "none"
    /\ setMutationError("")
    /\ UNCHANGED <<authVars, detailVars, restVars, page, locationState, searchTerm, debouncedSearchTerm,
                   selected, applied, showFilterPanel, isApplyingFilters,
                   isClearingFilters, currentPage, itemsPerPage, sortField,
                   sortOrder, isAddModalOpen, editingItem, mutating,
                   responseShape, deleteModalOpen, itemToDelete, mutationTarget>>
    /\ ObserverUpdate(TRUE)

\* onError of the delete mutation
DeleteError(message) ==
    /\ deleting # "none"
    /\ deleting' = "none"
    /\ setMutationError(ErrorMessage(message, Fallback("delete")))
    /\ UNCHANGED <<authVars, detailVars, restVars, failureCount, page, locationState, searchTerm, debouncedSearchTerm,
                   selected, applied, showFilterPanel, isApplyingFilters,
                   isClearingFilters, currentPage, itemsPerPage, sortField,
                   sortOrder, isAddModalOpen, editingItem, mutating, fetchState,
                   data, responseShape, deleteModalOpen, itemToDelete,
                   mutationTarget>>

----------------------------------------------------------------------------
(* The variant detail page and its sell form *)

DETAIL == "VariantDetail"

\* quantities the backend reports for the variant
Quantities == {0, 1}

Digits == {"0", "1", "2", "3", "4", "5", "6", "7", "8", "9"}

\* the text of n digits 7
Sevens(n) == [i \in 1..n |-> "7"]

\* texts entered as phone: digits of every length, and ten characters with a
\* non-digit or another digit at either end
PhoneInputs ==
    {Sevens(n) : n \in 0..MaxPhoneLen} \cup
    {[Sevens(10) EXCEPT ![i] = c] : i \in {1, 10}, c \in {"a", "0"}}

\* texts entered as pincode
PincodeInputs ==
    {Sevens(n) : n \in 0..MaxPincodeLen} \cup
    {[Sevens(6) EXCEPT ![i] = "a"] : i \in {1, 6}}

\* /^\d{n}$/.test(s)
MatchesDigits(s, n) == Len(s) = n /\ \A i \in 1..Len(s) : s[i] \in Digits

\* PhoneValid that checks the characters and not their number
PhoneValid_anyLength(s) == \A i \in 1..Len(s) : s[i] \in Digits

\* customerSchema.phone: z.string().regex(/^\d{10}$/).length(10)
PhoneValid(s) == MatchesDigits(s, 10) /\ Len(s) = 10

\* customerSchema.pincode: z.string().regex(/^\d{6}$/).length(6).optional()
\* .or(z.literal(''))
PincodeValid(s) == (MatchesDigits(s, 6) /\ Len(s) = 6) \/ s = <<>>

\* SellSchema; rest stands for sellingPrice, customer.name, email and
\* paymentMethod being valid
SellValid(rest) == rest /\ PhoneValid(phone) /\ PincodeValid(pincode)

\* the Sell button of the header
SellDisabled == variant.quantity = 0

SellLabel == IF variant.quantity = 0 THEN "Out of Stock" ELSE "Sell"

\* the header buttons can be reached: no modal covers them
DetailInteractive == variant # NoData /\ ~isEditModalOpen /\ ~isSellModalOpen

\* list state that the detail page never touches
listFrame == <<page, locationState, searchTerm, debouncedSearchTerm, selected,
               applied, showFilterPanel, isApplyingFilters, isClearingFilters,
               currentPage, itemsPerPage, sortField, sortOrder, isAddModalOpen,
               editingItem, mutating, fetchState, data, failureCount,
               responseShape, deleteModalOpen, itemToDelete, mutationTarget,
               deleting>>

\* the query ['variant', variantId] answers
DetailFetchSuccess(q) ==
    /\ page = DETAIL
    /\ variantFetch = "fetching"
    /\ variantFetch' = "idle"
    /\ variant' = [quantity |-> q]
    /\ UNCHANGED <<listVars, authVars, restVars, isEditModalOpen, isSellModalOpen, updating,
                   sellError, phone, pincode, formErrors, sale, salesInvalidated>>

\* VariantDetailPage.handleEdit
detail_handleEdit ==
    /\ page = DETAIL
    /\ DetailInteractive
    /\ isEditModalOpen' = TRUE
    /\ UNCHANGED <<listVars, authVars, restVars, variant, variantFetch, isSellModalOpen,
                   updating, sellError, phone, pincode, formErrors, sale,
                   salesInvalidated>>

\* VariantForm.onSubmit on the detail page: onSave is
\* updateVariantMutation.mutate, then handleClose
detail_onSubmit ==
    /\ page = DETAIL
    /\ isEditModalOpen
    /\ ~ButtonInert(FALSE, updating)
    /\ updating' = TRUE
    /\ isEditModalOpen' = FALSE
    /\ UNCHANGED <<listVars, authVars, restVars, variant, variantFetch, isSellModalOpen,
                   sellError, phone, pincode, formErrors, sale, salesInvalidated>>

\* VariantForm.handleClose on the detail page
detail_handleClose ==
    /\ page = DETAIL
    /\ isEditModalOpen
    /\ isEditModalOpen' = FALSE
    /\ UNCHANGED <<listVars, authVars, restVars, variant, variantFetch, isSellModalOpen,
                   updating, sellError, phone, pincode, formErrors, sale,
                   salesInvalidated>>

\* updateVariantMutation.onSuccess of the detail page
UpdateSuccess ==
    /\ page = DETAIL
    /\ updating
    /\ updating' = FALSE
    /\ variantFetch' = "fetching"
    /\ isEditModalOpen' = FALSE
    /\ setMutationError("")
    /\ UNCHANGED <<listFrame, authVars, restVars, variant, isSellModalOpen, sellError, phone,
                   pincode, formErrors, sale, salesInvalidated>>

\* updateVariantMutation.onError of the detail page
UpdateError(message) ==
    /\ page = DETAIL
    /\ updating
    /\ updating' = FALSE
    /\ setMutationError(ErrorMessage(message, Fallback("update")))
    /\ UNCHANGED <<listFrame, authVars, restVars, variant, variantFetch, isEditModalOpen,
                   isSellModalOpen, sellError, phone, pincode, formErrors, sale,
                   salesInvalidated>>

\* VariantDetailPage.handleSell, from the Sell button
handleSell ==
    /\ page = DETAIL
    /\ DetailInteractive
    /\ ~SellDisabled
    /\ isSellModalOpen' = TRUE
    /\ sellError' = ""
    /\ UNCHANGED <<listVars, authVars, restVars, variant, variantFetch, isEditModalOpen,
                   updating, phone, pincode, formErrors, sale, salesInvalidated>>

\* the user fills in the phone field of the sell form
EnterPhone(ph) ==
    /\ page = DETAIL
    /\ isSellModalOpen
    /\ phone' = ph
    /\ UNCHANGED <<listVars, authVars, restVars, variant, variantFetch, isEditModalOpen,
                   isSellModalOpen, updating, sellError, pincode, formErrors,
                   sale, salesInvalidated>>

\* the user fills in the pincode field of the sell form
EnterPincode(pin) ==
    /\ page = DETAIL
    /\ isSellModalOpen
    /\ pincode' = pin
    /\ UNCHANGED <<listVars, authVars, restVars, variant, variantFetch, isEditModalOpen,
                   isSellModalOpen, updating, sellError, phone, formErrors,
                   sale, salesInvalidated>>

\* the payload SellForm.onSubmit hands to onSell: '' becomes undefined
SaleData == [phone |-> phone, pincode |-> pincode]

\* SellForm_handleSubmit with a submit button that is never disabled
SellForm_handleSubmit_enabled(rest) ==
    /\ page = DETAIL
    /\ isSellModalOpen
    /\ variant # NoData
    /\ IF SellValid(rest)
         THEN sale' = SaleData /\ formErrors' = FALSE
         ELSE sale' = sale /\ formErrors' = TRUE
    /\ UNCHANGED <<listVars, authVars, restVars, variant, variantFetch, isEditModalOpen,
                   isSellModalOpen, updating, sellError, phone, pincode,
                   salesInvalidated>>

\* handleSubmit(onSubmit) of the sell form: the resolver validates, then
\* SellForm.onSubmit calls onSell = handleSaleComplete, which calls mutate
SellForm_handleSubmit(rest) ==
    /\ page = DETAIL
    /\ isSellModalOpen
    /\ variant # NoData
    /\ ~ButtonInert(sale # NoSale, FALSE)
    /\ IF SellValid(rest)
         THEN sale' = SaleData /\ formErrors' = FALSE
         ELSE sale' = sale /\ formErrors' = TRUE
    /\ UNCHANGED <<listVars, authVars, restVars, variant, variantFetch, isEditModalOpen,
                   isSellModalOpen, updating, sellError, phone, pincode,
                   salesInvalidated>>

\* SellForm.handleClose: reset() and onClose. Cancel is disabled while the
\* sale is in flight, the close control of Modal is not
SellForm_handleClose ==
    /\ page = DETAIL
    /\ isSellModalOpen
    /\ isSellModalOpen' = FALSE
    /\ phone' = <<>>
    /\ pincode' = <<>>
    /\ formErrors' = FALSE
    /\ UNCHANGED <<listVars, authVars, restVars, variant, variantFetch, isEditModalOpen,
                   updating, sellError, sale, salesInvalidated>>

\* navigate('/sales'): the detail page unmounts and the Sales page mounts
NavigateToSales ==
    /\ location' = "/sales"
    /\ page' = "Sales"
    /\ locationState' = NoState
    /\ searchTerm' = ""
    /\ debouncedSearchTerm' = ""
    /\ selected' = EmptyFilters("Sales")
    /\ applied' = EmptyFilters("Sales")
    /\ showFilterPanel' = FALSE
    /\ isApplyingFilters' = FALSE
    /\ isClearingFilters' = FALSE
    /\ currentPage' = 1
    /\ itemsPerPage' = InitialItemsPerPage("Sales")
    /\ sortField' = ""
    /\ sortOrder' = ""
    /\ isAddModalOpen' = FALSE
    /\ editingItem' = NoItem
    /\ mutating' = "none"
    /\ mutationError' = ""
    /\ deleteModalOpen' = FALSE
    /\ itemToDelete' = NoItem
    /\ mutationTarget' = ""
    /\ deleting' = "none"
    /\ timers' = <<>>
    /\ fetchState' = "fetching"
    /\ data' = NoData
    /\ failureCount' = 0
    /\ UNCHANGED <<restVars, responseShape, authVariant, storage, user, loading, effectRan,
                   firebaseUser, listenerPending, requests, idpCalls, session>>

\* SaleSuccess that stays on the detail page
SaleSuccess_noNavigate ==
    /\ page = DETAIL
    /\ sale # NoSale
    /\ sale' = NoSale
    /\ salesInvalidated' = TRUE
    /\ isSellModalOpen' = FALSE
    /\ sellError' = ""
    /\ UNCHANGED <<listVars, authVars, restVars, variant, variantFetch, isEditModalOpen,
                   updating, phone, pincode, formErrors>>

\* createSaleMutation.onSuccess
SaleSuccess ==
    /\ page = DETAIL
    /\ sale # NoSale
    /\ sale' = NoSale
    /\ salesInvalidated' = TRUE
    /\ isSellModalOpen' = FALSE
    /\ sellError' = ""
    /\ NavigateToSales
    /\ UNCHANGED <<variant, variantFetch, isEditModalOpen, updating, phone, pincode,
                   formErrors>>

\* createSaleMutation.onError
SaleError(message) ==
    /\ page = DETAIL
    /\ sale # NoSale
    /\ sale' = NoSale
    /\ sellError' = ErrorMessage(message, "Failed to complete sale")
    /\ UNCHANGED <<listVars, authVars, restVars, variant, variantFetch, isEditModalOpen,
                   isSellModalOpen, updating, phone, pincode, formErrors,
                   salesInvalidated>>

----------------------------------------------------------------------------
(* Request bodies of the product and variant mutations *)

\* keys that VariantSchema always yields
VariantRequired == {"product_uid", "product_name", "description", "sku", "category",
                    "brand", "branch", "cost_price"}

\* keys that VariantSchema yields when the field has a value
VariantOptional == {"title", "supplier", "selling_price", "quantity", "warranty",
                    "image", "notes", "attributes"}

\* keys of productSchema
ProductKeys == {"title", "brand", "category"}

\* keys of an item that are not input: identifiers, derived values, timestamps
ItemOnlyKeys == {"id", "_id", "uid", "profit_margin", "profitMargin", "createdAt",
                 "updatedAt", "created_at", "updated_at", "__v", "count"}

PayloadPages == {"Products", "Variants", "ProductVariants", DETAIL}

Operations(p) == IF p = DETAIL THEN {"update"} ELSE {"create", "update"}

\* data handed to a mutation: what the form's onSubmit builds, the validated
\* values and _id, with up to MaxExtraKeys further keys of an item
MutationInputs(p) ==
    {f \cup {"_id"} \cup extra :
        f \in IF p = "Products" THEN {ProductKeys}
                                ELSE {VariantRequired \cup o : o \in SUBSET VariantOptional},
        extra \in {e \in SUBSET (ItemOnlyKeys \ {"_id"}) : Cardinality(e) <= MaxExtraKeys}}

\* keys that cleanedData takes from the data when they have a value there
Copied(p, operation) ==
    CASE p = "Products" -> {"title", "brand", "category"}
      [] p = DETAIL ->
           {"product_name", "description", "imei", "category", "brand", "supplier",
            "branch", "warranty", "attributes"}
      [] OTHER ->
           {"product_name", "product_uid", "description", "category", "brand",
            "branch", "supplier", "selling_price", "image", "notes", "warranty",
            "attributes"}
           \cup (IF p = "Variants" THEN {"sku"} ELSE {"imei"})
           \cup (IF operation = "create" THEN {"title"} ELSE {"quantity"})

\* keys that cleanedData holds whatever the data: Number(...) is never
\* undefined, and the product-variants page falls back to its own product_uid
Computed(p, operation) ==
    CASE p = "Products" -> {}
      [] p = DETAIL -> {"cost_price", "quantity"}
      [] OTHER ->
           {"cost_price"}
           \cup (IF operation = "create" THEN {"quantity"} ELSE {})
           \cup (IF p = "ProductVariants" THEN {"product_uid"} ELSE {})

\* cleanedData that passes the data on as it came
cleanedData_asGiven(p, operation, d) == d

\* cleanedData of the mutation function, as the keys of the JSON body
cleanedData(p, operation, d) == (d \cap Copied(p, operation)) \cup Computed(p, operation)

\* the mutation function of the page's create or update mutation runs
mutationFn(operation) ==
    /\ page \in PayloadPages
    /\ operation \in Operations(page)
    /\ body' = [operation |-> operation, keys |-> cleanedData(page, operation, variantData)]
    /\ UNCHANGED <<listVars, authVars, detailVars, variantData, createForm, fieldErrors,
                   pageMounted>>

----------------------------------------------------------------------------
(* The create-user form *)

\* texts typed as password and as its confirmation
Passwords == {"", "abc", "secret", "Secret"}

\* keys of CreateUserFormData
CreateUserKeys == {"firstName", "lastName", "email", "password", "confirmPassword"}

\* createUserSchema without its refinement
createUserSchema_noRefine(form) ==
    (IF form.rest THEN {} ELSE {"firstName", "email"})
    \cup (IF Len(form.password) >= 6 THEN {} ELSE {"password"})

\* createUserSchema: the fields in error. rest stands for firstName and email
\* being valid; the refinement reports on the path confirmPassword
createUserSchema(form) ==
    (IF form.rest THEN {} ELSE {"firstName", "email"})
    \cup (IF Len(form.password) >= 6 THEN {} ELSE {"password"})
    \cup (IF form.password = form.confirmPassword THEN {} ELSE {"confirmPassword"})

\* the user types into the create-user form
EnterCreateForm(form) ==
    /\ page = "Users"
    /\ isAddModalOpen
    /\ editingItem = NoItem
    /\ createForm' = form
    /\ UNCHANGED <<listVars, authVars, detailVars, variantData, body, fieldErrors,
                   pageMounted>>

\* handleSubmitCreate(onSubmitCreate): the resolver validates; when it accepts,
\* onSubmitCreate calls createUserMutation.mutate, whose mutation function
\* sends the data without confirmPassword
handleSubmitCreate ==
    /\ page = "Users"
    /\ isAddModalOpen
    /\ editingItem = NoItem
    /\ ~ButtonInert(FALSE, mutating # "none")
    /\ fieldErrors' = createUserSchema(createForm)
    /\ IF createUserSchema(createForm) = {}
         THEN /\ mutating' = "create"
              /\ body' = [operation |-> "create",
                          keys |-> CreateUserKeys \ {"confirmPassword"}]
         ELSE UNCHANGED <<mutating, body>>
    /\ UNCHANGED <<authVars, detailVars, variantData, createForm, pageMounted, page, locationState,
                   searchTerm, debouncedSearchTerm, selected, applied,
                   showFilterPanel, isApplyingFilters, isClearingFilters,
                   currentPage, itemsPerPage, sortField, sortOrder, isAddModalOpen,
                   editingItem, timers, fetchState, data, failureCount,
                   responseShape, formVars>>

----------------------------------------------------------------------------
(* The list page as a state machine *)

Mounted == locationState = NoState

\* search, filter panel, pagination and the list request, on every list page
Next ==
    \/ RestoreState
    \/ Mounted /\ \E v \in SearchValues : TypeSearch(v)
    \/ Mounted /\ \E i \in 1..Len(timers) : DebounceFire(i)
    \/ Mounted /\ OpenFilterPanel
    \/ Mounted /\ CloseFilterPanel
    \/ Mounted /\ \E k \in FilterKeys(page), v \in FilterValues : handleFilterFieldChange(k, v)
    \/ Mounted /\ applyFilters
    \/ Mounted /\ clearFilters
    \/ Mounted /\ \E i \in 1..Len(timers) : ApplyTimerFire(i)
    \/ Mounted /\ \E i \in 1..Len(timers) : ClearTimerFire(i)
    \/ Mounted /\ \E p \in 1..MaxTotal : handlePageChange(p)
    \/ Mounted /\ \E l \in PAGE_SIZE_OPTIONS : handleItemsPerPageChange(l)
    \/ Mounted /\ Refresh
    \/ Mounted /\ \E n \in ServerTotals, m \in ServerTotals : FetchSuccess(n, m)

Spec == Init /\ [][Next]_vars

\* pagination and the list request alone, under either response envelope
PagingInit ==
    /\ responseShape \in ResponseShapes
    /\ ListInit
    /\ locationState = NoState
    /\ SignedIn

PagingNext ==
    \/ \E p \in 1..MaxTotal : handlePageChange(p)
    \/ \E l \in PAGE_SIZE_OPTIONS : handleItemsPerPageChange(l)
    \/ Refresh
    \/ \E n \in ServerTotals, m \in ServerTotals : FetchSuccess(n, m)

PagingSpec == PagingInit /\ [][PagingNext]_vars

\* the Users page: sort, create and update, pagination and the list request
UsersInit ==
    /\ page = "Users"
    /\ responseShape = "items_count"
    /\ ListInit
    /\ SignedIn

UsersNext ==
    \/ \E f \in SortFields : handleSort(f)
    \/ \E i \in 1..Len(timers) : SortTimerFire(i)
    \/ handleAddUser
    \/ handleEditUser
    \/ handleCloseModal
    \/ SubmitUser
    \/ UserMutationSuccess
    \/ \E msg \in ServerMessages : UserMutationError(msg)
    \/ \E i \in 1..Len(timers) : BannerTimerFire(i)
    \/ \E p \in 1..MaxTotal : handlePageChange(p)
    \/ \E l \in PAGE_SIZE_OPTIONS : handleItemsPerPageChange(l)
    \/ Refresh
    \/ \E n \in ServerTotals, m \in ServerTotals : FetchSuccess(n, m)

UsersSpec == UsersInit /\ [][UsersNext]_vars

\* create, update and delete with the error banner, on the pages that have
\* mutations
FormsInit ==
    /\ page \in FormPages \cup DeletePages
    /\ responseShape = "items_count"
    /\ ListInit
    /\ locationState = NoState
    /\ SignedIn

FormsNext ==
    \/ handleAddUser
    \/ handleEditUser
    \/ handleCloseModal
    \/ SubmitUser
    \/ UserMutationSuccess
    \/ \E msg \in ServerMessages : UserMutationError(msg)
    \/ handleAdd
    \/ \E item \in Items : handleEdit(item)
    \/ onSubmit
    \/ handleClose
    \/ FormMutationSuccess
    \/ \E msg \in ServerMessages : FormMutationError(msg)
    \/ \E item \in Items : handleDelete(item)
    \/ confirmDelete
    \/ closeDeleteModal
    \/ DeleteSuccess
    \/ \E msg \in ServerMessages : DeleteError(msg)
    \/ \E i \in 1..Len(timers) : BannerTimerFire(i)
    \/ \E n \in ServerTotals, m \in ServerTotals : FetchSuccess(n, m)

FormsSpec == FormsInit /\ [][FormsNext]_vars

\* the Users page with failing requests: the list query and its retries,
\* create and update
RetryNext ==
    \/ Refresh
    \/ \E p \in 1..MaxTotal : handlePageChange(p)
    \/ \E n \in ServerTotals, m \in ServerTotals : FetchSuccess(n, m)
    \/ \E msg \in ServerMessages : FetchError(msg)
    \/ handleAddUser
    \/ handleEditUser
    \/ handleCloseModal
    \/ SubmitUser
    \/ UserMutationSuccess
    \/ \E msg \in ServerMessages : UserMutationError(msg)
    \/ \E i \in 1..Len(timers) : BannerTimerFire(i)

RetrySpec == UsersInit /\ [][RetryNext]_vars

\* the variant detail page after its first render, on /variant/:variantId
DetailInit ==
    /\ page = DETAIL
    /\ locationState = NoState
    /\ searchTerm = ""
    /\ debouncedSearchTerm = ""
    /\ selected = EmptyFilters(DETAIL)
    /\ applied = EmptyFilters(DETAIL)
    /\ showFilterPanel = FALSE
    /\ isApplyingFilters = FALSE
    /\ isClearingFilters = FALSE
    /\ currentPage = 1
    /\ itemsPerPage = DEFAULT_PAGE_SIZE
    /\ sortField = ""
    /\ sortOrder = ""
    /\ isAddModalOpen = FALSE
    /\ editingItem = NoItem
    /\ mutating = "none"
    /\ mutationError = ""
    /\ deleteModalOpen = FALSE
    /\ itemToDelete = NoItem
    /\ mutationTarget = ""
    /\ deleting = "none"
    /\ timers = <<>>
    /\ fetchState = "idle"
    /\ data = NoData
    /\ failureCount = 0
    /\ responseShape = "items_count"
    /\ variant = NoData
    /\ variantFetch = "fetching"
    /\ isEditModalOpen = FALSE
    /\ isSellModalOpen = FALSE
    /\ updating = FALSE
    /\ sellError = ""
    /\ phone = <<>>
    /\ pincode = <<>>
    /\ formErrors = FALSE
    /\ sale = NoSale
    /\ salesInvalidated = FALSE
    /\ NoPayload
    /\ pageMounted = TRUE
    /\ authVariant = "jwt"
    /\ storage = [auth_token |-> "t1", firebase_token |-> NoToken]
    /\ user = "user"
    /\ loading = FALSE
    /\ effectRan = TRUE
    /\ location = "/variant/v1"
    /\ firebaseUser = FALSE
    /\ listenerPending = FALSE
    /\ requests = <<>>
    /\ idpCalls = <<>>
    /\ session = "t1"

DetailNext ==
    \/ \E q \in Quantities : DetailFetchSuccess(q)
    \/ detail_handleEdit
    \/ detail_onSubmit
    \/ detail_handleClose
    \/ UpdateSuccess
    \/ \E msg \in ServerMessages : UpdateError(msg)
    \/ handleSell
    \/ \E ph \in PhoneInputs : EnterPhone(ph)
    \/ \E pin \in PincodeInputs : EnterPincode(pin)
    \/ \E rest \in BOOLEAN : SellForm_handleSubmit(rest)
    \/ SellForm_handleClose
    \/ SaleSuccess
    \/ \E msg \in ServerMessages : SaleError(msg)

DetailSpec == DetailInit /\ [][DetailNext]_vars

\* a page about to send a create or update with the data of its form
PayloadInit ==
    /\ page \in PayloadPages
    /\ locationState = NoState
    /\ searchTerm = ""
    /\ debouncedSearchTerm = ""
    /\ selected = EmptyFilters(page)
    /\ applied = EmptyFilters(page)
    /\ showFilterPanel = FALSE
    /\ isApplyingFilters = FALSE
    /\ isClearingFilters = FALSE
    /\ currentPage = 1
    /\ itemsPerPage = InitialItemsPerPage(page)
    /\ sortField = ""
    /\ sortOrder = ""
    /\ isAddModalOpen = TRUE
    /\ editingItem = NoItem
    /\ mutating = "none"
    /\ mutationError = ""
    /\ deleteModalOpen = FALSE
    /\ itemToDelete = NoItem
    /\ mutationTarget = ""
    /\ deleting = "none"
    /\ timers = <<>>
    /\ fetchState = "idle"
    /\ data = NoData
    /\ failureCount = 0
    /\ responseShape = "items_count"
    /\ NoDetailPage
    /\ variantData \in MutationInputs(page)
    /\ createForm = EmptyForm
    /\ body = NoBody
    /\ fieldErrors = {}
    /\ pageMounted = TRUE
    /\ SignedIn

PayloadNext == \E operation \in {"create", "update"} : mutationFn(operation)

PayloadSpec == PayloadInit /\ [][PayloadNext]_vars

\* the Users page with its create-user form
CreateUserNext ==
    \/ handleAddUser
    \/ \E pw \in Passwords, cpw \in Passwords, rest \in BOOLEAN :
          EnterCreateForm([password |-> pw, confirmPassword |-> cpw, rest |-> rest])
    \/ handleSubmitCreate
    \/ handleCloseModal
    \/ UserMutationSuccess
    \/ \E msg \in ServerMessages : UserMutationError(msg)
    \/ \E i \in 1..Len(timers) : BannerTimerFire(i)
    \/ \E n \in ServerTotals, m \in ServerTotals : FetchSuccess(n, m)

CreateUserSpec == UsersInit /\ [][CreateUserNext]_vars

----------------------------------------------------------------------------
(* Leaving a list page *)

\* timers set in an effect whose cleanup calls clearTimeout
CleanedUpKinds == {"debounce", "banner"}

\* the route changes and the page component unmounts: React runs the effect
\* cleanups; the timers that the handlers set stay pending
Unmount ==
    /\ pageMounted
    /\ pageMounted' = FALSE
    /\ timers' = SelectSeq(timers, LAMBDA t : t.kind \notin CleanedUpKinds)
    /\ UNCHANGED <<authVars, detailVars, variantData, createForm, body, fieldErrors,
                   formVars, page, locationState, searchTerm, debouncedSearchTerm,
                   selected, applied, showFilterPanel, isApplyingFilters,
                   isClearingFilters, currentPage, itemsPerPage, sortField,
                   sortOrder, isAddModalOpen, editingItem, mutating, fetchState,
                   data, failureCount, responseShape>>

\* a handler's setTimeout callback runs in the unmounted component: React
\* drops its state updates, refetch() starts a list request unless one is in
\* flight
StaleTimerFire(i) ==
    /\ ~pageMounted
    /\ i \in 1..Len(timers)
    /\ timers[i].kind \in {"apply", "clear", "sort"}
    /\ MayFire(i)
    /\ timers' = RemoveAt(timers, i)
    /\ fetchState' = "fetching"
    /\ failureCount' = IF fetchState = "idle" THEN 0 ELSE failureCount
    /\ UNCHANGED <<authVars, detailVars, restVars, formVars, page, locationState,
                   searchTerm, debouncedSearchTerm, selected, applied,
                   showFilterPanel, isApplyingFilters, isClearingFilters,
                   currentPage, itemsPerPage, sortField, sortOrder, isAddModalOpen,
                   editingItem, mutating, data, responseShape>>

\* search, filters and sort of a list page that the user may leave
UnmountNext ==
    \/ pageMounted /\ RestoreState
    \/ pageMounted /\ Mounted /\ \E v \in SearchValues : TypeSearch(v)
    \/ pageMounted /\ Mounted /\ \E i \in 1..Len(timers) : DebounceFire(i)
    \/ pageMounted /\ Mounted /\ OpenFilterPanel
    \/ pageMounted /\ Mounted /\ CloseFilterPanel
    \/ pageMounted /\ Mounted
          /\ \E k \in FilterKeys(page), v \in FilterValues : handleFilterFieldChange(k, v)
    \/ pageMounted /\ Mounted /\ applyFilters
    \/ pageMounted /\ Mounted /\ clearFilters
    \/ pageMounted /\ Mounted /\ \E i \in 1..Len(timers) : ApplyTimerFire(i)
    \/ pageMounted /\ Mounted /\ \E i \in 1..Len(timers) : ClearTimerFire(i)
    \/ pageMounted /\ Mounted /\ \E f \in SortFields : handleSort(f)
    \/ pageMounted /\ Mounted /\ \E i \in 1..Len(timers) : SortTimerFire(i)
    \/ \E n \in ServerTotals, m \in ServerTotals : FetchSuccess(n, m)
    \/ Mounted /\ Unmount
    \/ \E i \in 1..Len(timers) : StaleTimerFire(i)

UnmountSpec == Init /\ [][UnmountNext]_vars

----------------------------------------------------------------------------
(* The HTTP client and the auth provider *)

AuthVariants == {"jwt", "firebase"}

Tokens == {"t1", "t2"}

NoHeader == "none"

LOGIN == "/login"

SESSION_EXPIRED == "/login?message=session_expired"

\* the template literal `Bearer ${token}`
Bearer(token) == "Bearer " \o token

setItem(s, key, value) == [s EXCEPT ![key] = value]

removeItem(s, key) == [s EXCEPT ![key] = NoToken]

\* the localStorage key under which the provider of the variant keeps the
\* session token
TokenKey == IF authVariant = "jwt" THEN "auth_token" ELSE "firebase_token"

\* api.interceptors.request: the Authorization header of a request sent now
RequestInterceptor ==
    IF storage["auth_token"] # NoToken THEN Bearer(storage["auth_token"])
                                       ELSE NoHeader

\* a request handed to the HTTP client; token is the session token the
\* caller sends it for
Request(kind, origin, token) ==
    [kind |-> kind, origin |-> origin, token |-> token,
     authorization |-> RequestInterceptor]

IdpCall(kind, origin) == [kind |-> kind, origin |-> origin]

InFlight == Len(requests) + Len(idpCalls)

\* window.location.href = target: the document is replaced, the state of
\* the React tree and what was in flight are gone
Reload(target) ==
    /\ location' = target
    /\ user' = NoUser
    /\ loading' = TRUE
    /\ effectRan' = FALSE
    /\ listenerPending' = FALSE
    /\ requests' = <<>>
    /\ idpCalls' = <<>>

\* the mount effect of the AuthProvider
StartupEffect ==
    /\ ~effectRan
    /\ effectRan' = TRUE
    /\ IF authVariant = "jwt"
         THEN /\ IF storage["auth_token"] # NoToken
                   THEN /\ requests' = Append(requests,
                               Request("profile", "startup", storage["auth_token"]))
                        /\ loading' = loading
                   ELSE /\ loading' = FALSE
                        /\ requests' = requests
              /\ listenerPending' = listenerPending
         ELSE /\ listenerPending' = TRUE
              /\ UNCHANGED <<requests, loading>>
    /\ UNCHANGED <<listVars, detailVars, restVars, authVariant, storage, user, location, firebaseUser,
                   idpCalls, session>>

\* api.interceptors.response on a 401, then the rejection handlers of the
\* caller, then the navigation
Unauthorized(i) ==
    /\ i \in 1..Len(requests)
    /\ LET r == requests[i]
           s1 == removeItem(storage, "auth_token")
       IN  storage' = IF r.kind = "profile" /\ r.origin = "listener"
                        THEN removeItem(s1, "firebase_token")
                        ELSE s1
    /\ Reload(LOGIN)
    /\ session' = NoToken
    /\ UNCHANGED <<listVars, detailVars, restVars, authVariant, firebaseUser>>

\* ProfileResponse with loading left alone when the request failed
ProfileResponse_failureKeepsLoading(i, ok) ==
    /\ i \in 1..Len(requests)
    /\ requests[i].kind = "profile"
    /\ requests' = RemoveAt(requests, i)
    /\ IF ok
         THEN /\ user' = "user"
              /\ session' = requests[i].token
              /\ storage' = storage
              /\ loading' = FALSE
         ELSE /\ storage' = removeItem(storage, TokenKey)
              /\ user' = IF requests[i].origin = "listener" THEN NoUser ELSE user
              /\ session' = session
              /\ loading' = loading
    /\ UNCHANGED <<listVars, detailVars, restVars, authVariant, effectRan, location, firebaseUser,
                   listenerPending, idpCalls>>

\* the current-user request settles with a success or a failure other than 401
ProfileResponse(i, ok) ==
    /\ i \in 1..Len(requests)
    /\ requests[i].kind = "profile"
    /\ requests' = RemoveAt(requests, i)
    /\ loading' = FALSE
    /\ IF ok
         THEN /\ user' = "user"
              /\ session' = requests[i].token
              /\ storage' = storage
         ELSE /\ storage' = removeItem(storage, TokenKey)
              /\ user' = IF requests[i].origin = "listener" THEN NoUser ELSE user
              /\ session' = session
    /\ UNCHANGED <<listVars, detailVars, restVars, authVariant, effectRan, location, firebaseUser,
                   listenerPending, idpCalls>>

\* login / register of the backend-JWT variant up to the request
jwtSubmit(kind) ==
    /\ authVariant = "jwt"
    /\ effectRan
    /\ kind = "login" => location \in {LOGIN, SESSION_EXPIRED}
    /\ InFlight < MaxRequests
    /\ requests' = Append(requests, Request(kind, "form", NoToken))
    /\ UNCHANGED <<listVars, detailVars, restVars, authVariant, storage, user, loading, effectRan,
                   location, firebaseUser, listenerPending, idpCalls, session>>

\* login / register of the backend-JWT variant from the response on
jwtResponse(i, ok, token) ==
    /\ i \in 1..Len(requests)
    /\ requests[i].kind \in {"login", "register"}
    /\ requests' = RemoveAt(requests, i)
    /\ IF ok
         THEN /\ storage' = setItem(storage, "auth_token", token)
              /\ user' = "user"
              /\ session' = token
              /\ location' = IF requests[i].kind = "login" THEN "/dashboard"
                                                           ELSE location
         ELSE UNCHANGED <<storage, user, session, location>>
    /\ UNCHANGED <<listVars, detailVars, restVars, authVariant, loading, effectRan, firebaseUser,
                   listenerPending, idpCalls>>

\* Layout.handleLogout in the backend-JWT variant: logout(), navigate('/login')
jwtLogout ==
    /\ authVariant = "jwt"
    /\ user # NoUser
    /\ storage' = removeItem(storage, "auth_token")
    /\ user' = NoUser
    /\ session' = NoToken
    /\ location' = LOGIN
    /\ UNCHANGED <<listVars, detailVars, restVars, authVariant, loading, effectRan,
                   firebaseUser, listenerPending, requests, idpCalls>>

\* a page behind the protected route sends a request
DataRequest ==
    /\ user # NoUser
    /\ InFlight < MaxRequests
    /\ requests' = Append(requests, Request("data", "page", NoToken))
    /\ UNCHANGED <<listVars, detailVars, restVars, authVariant, storage, user, loading, effectRan,
                   location, firebaseUser, listenerPending, idpCalls, session>>

\* a page's request settles with a success or a failure other than 401
DataResponse(i) ==
    /\ i \in 1..Len(requests)
    /\ requests[i].kind = "data"
    /\ requests' = RemoveAt(requests, i)
    /\ UNCHANGED <<listVars, detailVars, restVars, authVariant, storage, user, loading, effectRan,
                   location, firebaseUser, listenerPending, idpCalls, session>>

\* login / register of the identity-provider variant up to the SDK call
firebaseSubmit(kind) ==
    /\ authVariant = "firebase"
    /\ effectRan
    /\ kind = "login" => location \in {LOGIN, SESSION_EXPIRED}
    /\ InFlight < MaxRequests
    /\ idpCalls' = Append(idpCalls, IdpCall(kind, "form"))
    /\ UNCHANGED <<listVars, detailVars, restVars, authVariant, storage, user, loading, effectRan,
                   location, firebaseUser, listenerPending, requests, session>>

\* login / register of the identity-provider variant from the SDK's answer on
firebaseSignedIn(i, ok, token) ==
    /\ i \in 1..Len(idpCalls)
    /\ idpCalls[i].kind \in {"login", "register"}
    /\ idpCalls' = RemoveAt(idpCalls, i)
    /\ IF ok
         THEN /\ firebaseUser' = TRUE
              /\ listenerPending' = TRUE
              /\ storage' = setItem(storage, "firebase_token", token)
              /\ user' = "user"
              /\ session' = token
              /\ location' = IF idpCalls[i].kind = "login" THEN "/dashboard"
                                                           ELSE location
         ELSE UNCHANGED <<firebaseUser, listenerPending, storage, user, session,
                          location>>
    /\ UNCHANGED <<listVars, detailVars, restVars, authVariant, loading, effectRan, requests>>

\* the onAuthStateChanged callback up to its first await
ListenerFire ==
    /\ authVariant = "firebase"
    /\ effectRan
    /\ listenerPending
    /\ listenerPending' = FALSE
    /\ IF firebaseUser
         THEN /\ InFlight < MaxRequests
              /\ idpCalls' = Append(idpCalls, IdpCall("getIdToken", "listener"))
              /\ UNCHANGED <<storage, user, loading>>
         ELSE /\ storage' = removeItem(storage, "firebase_token")
              /\ user' = NoUser
              /\ loading' = FALSE
              /\ idpCalls' = idpCalls
    /\ UNCHANGED <<listVars, detailVars, restVars, authVariant, effectRan, location, firebaseUser,
                   requests, session>>

\* the 30 s interval callback up to its await
TokenCheck ==
    /\ authVariant = "firebase"
    /\ effectRan
    /\ firebaseUser
    /\ InFlight < MaxRequests
    /\ idpCalls' = Append(idpCalls, IdpCall("getIdToken", "interval"))
    /\ UNCHANGED <<listVars, detailVars, restVars, authVariant, storage, user, loading, effectRan,
                   location, firebaseUser, listenerPending, requests, session>>

\* GetIdTokenDone with the interval callback swallowing a failed refresh
GetIdTokenDone_ignoreFailure(i, ok, token) ==
    /\ i \in 1..Len(idpCalls)
    /\ idpCalls[i].kind = "getIdToken"
    /\ idpCalls' = RemoveAt(idpCalls, i)
    /\ IF idpCalls[i].origin = "listener"
         THEN IF ok
                THEN /\ storage' = setItem(storage, "firebase_token", token)
                     /\ requests' = Append(requests,
                            Request("profile", "listener", token))
                     /\ UNCHANGED <<user, loading>>
                ELSE /\ storage' = removeItem(storage, "firebase_token")
                     /\ user' = NoUser
                     /\ loading' = FALSE
                     /\ requests' = requests
         ELSE UNCHANGED <<storage, user, loading, requests>>
    /\ UNCHANGED <<listVars, detailVars, restVars, authVariant, effectRan, location, firebaseUser,
                   listenerPending, session>>

\* getIdToken(true) settles: the listener goes on to the current-user request,
\* the interval callback to logout() when the refresh failed
GetIdTokenDone(i, ok, token) ==
    /\ i \in 1..Len(idpCalls)
    /\ idpCalls[i].kind = "getIdToken"
    /\ IF idpCalls[i].origin = "listener"
         THEN /\ idpCalls' = RemoveAt(idpCalls, i)
              /\ IF ok
                   THEN /\ storage' = setItem(storage, "firebase_token", token)
                        /\ requests' = Append(requests,
                               Request("profile", "listener", token))
                        /\ UNCHANGED <<user, loading>>
                   ELSE /\ storage' = removeItem(storage, "firebase_token")
                        /\ user' = NoUser
                        /\ loading' = FALSE
                        /\ requests' = requests
         ELSE /\ idpCalls' = IF ok THEN RemoveAt(idpCalls, i)
                                   ELSE [idpCalls EXCEPT ![i] = IdpCall("signOut", "interval")]
              /\ UNCHANGED <<storage, user, loading, requests>>
    /\ UNCHANGED <<listVars, detailVars, restVars, authVariant, effectRan, location, firebaseUser,
                   listenerPending, session>>

\* Layout.handleLogout in the identity-provider variant: logout() up to its
\* await of signOut, navigate('/login')
firebaseLogout ==
    /\ authVariant = "firebase"
    /\ user # NoUser
    /\ InFlight < MaxRequests
    /\ idpCalls' = Append(idpCalls, IdpCall("signOut", "button"))
    /\ location' = LOGIN
    /\ UNCHANGED <<listVars, detailVars, restVars, authVariant, storage, user, loading, effectRan,
                   firebaseUser, listenerPending, requests, session>>

\* SignOutDone with the token removed in the try block only
SignOutDone_tryOnly(i, ok) ==
    /\ i \in 1..Len(idpCalls)
    /\ idpCalls[i].kind = "signOut"
    /\ storage' = IF ok THEN removeItem(storage, "firebase_token") ELSE storage
    /\ firebaseUser' = IF ok THEN FALSE ELSE firebaseUser
    /\ session' = NoToken
    /\ IF idpCalls[i].origin = "interval"
         THEN Reload(SESSION_EXPIRED)
         ELSE /\ idpCalls' = RemoveAt(idpCalls, i)
              /\ user' = NoUser
              /\ listenerPending' = IF ok THEN TRUE ELSE listenerPending
              /\ UNCHANGED <<loading, effectRan, location, requests>>
    /\ UNCHANGED <<listVars, detailVars, restVars, authVariant>>

\* signOut settles: authService.logout and AuthProvider.logout finish; the
\* interval callback then leaves for the login page
SignOutDone(i, ok) ==
    /\ i \in 1..Len(idpCalls)
    /\ idpCalls[i].kind = "signOut"
    /\ storage' = removeItem(storage, "firebase_token")
    /\ firebaseUser' = IF ok THEN FALSE ELSE firebaseUser
    /\ session' = NoToken
    /\ IF idpCalls[i].origin = "interval"
         THEN Reload(SESSION_EXPIRED)
         ELSE /\ idpCalls' = RemoveAt(idpCalls, i)
              /\ user' = NoUser
              /\ listenerPending' = IF ok THEN TRUE ELSE listenerPending
              /\ UNCHANGED <<loading, effectRan, location, requests>>
    /\ UNCHANGED <<listVars, detailVars, restVars, authVariant>>

\* the application is opened: what the browser kept of an earlier visit
AuthInit ==
    /\ authVariant \in AuthVariants
    /\ firebaseUser \in IF authVariant = "firebase" THEN BOOLEAN ELSE {FALSE}
    /\ storage \in
         IF authVariant = "jwt"
           THEN {[auth_token |-> t, firebase_token |-> NoToken] :
                    t \in Tokens \cup {NoToken}}
           ELSE {[auth_token |-> NoToken, firebase_token |-> t] :
                    t \in Tokens \cup {NoToken}}
    /\ user = NoUser
    /\ loading = TRUE
    /\ effectRan = FALSE
    /\ location \in {LOGIN, "/dashboard"}
    /\ listenerPending = FALSE
    /\ requests = <<>>
    /\ idpCalls = <<>>
    /\ session = NoToken
    /\ page = "Users"
    /\ responseShape = "items_count"
    /\ ListInit

\* the auth provider and the HTTP client, in either variant
AuthNext ==
    \/ StartupEffect
    \/ \E i \in 1..Len(requests) : Unauthorized(i)
    \/ \E i \in 1..Len(requests), ok \in BOOLEAN : ProfileResponse(i, ok)
    \/ \E kind \in {"login", "register"} : jwtSubmit(kind)
    \/ \E i \in 1..Len(requests), ok \in BOOLEAN, t \in Tokens : jwtResponse(i, ok, t)
    \/ jwtLogout
    \/ DataRequest
    \/ \E i \in 1..Len(requests) : DataResponse(i)
    \/ \E kind \in {"login", "register"} : firebaseSubmit(kind)
    \/ \E i \in 1..Len(idpCalls), ok \in BOOLEAN, t \in Tokens : firebaseSignedIn(i, ok, t)
    \/ ListenerFire
    \/ TokenCheck
    \/ \E i \in 1..Len(idpCalls), ok \in BOOLEAN, t \in Tokens : GetIdTokenDone(i, ok, t)
    \/ firebaseLogout
    \/ \E i \in 1..Len(idpCalls), ok \in BOOLEAN : SignOutDone(i, ok)

AuthSpec == AuthInit /\ [][AuthNext]_vars

\* who issued a request or an identity-provider call
Origins == {"startup", "listener", "form", "page", "interval", "button"}

\* a request of the kind and origin in flight gets its answer
SettleRequest(kind, origin) ==
    \E i \in 1..Len(requests) :
        /\ requests[i].kind = kind
        /\ requests[i].origin = origin
        /\ \/ Unauthorized(i)
           \/ \E ok \in BOOLEAN : ProfileResponse(i, ok)
           \/ \E ok \in BOOLEAN, t \in Tokens : jwtResponse(i, ok, t)
           \/ DataResponse(i)

\* an identity-provider call of the kind and origin in flight settles
SettleIdpCall(kind, origin) ==
    \E i \in 1..Len(idpCalls) :
        /\ idpCalls[i].kind = kind
        /\ idpCalls[i].origin = origin
        /\ \/ \E ok \in BOOLEAN, t \in Tokens : firebaseSignedIn(i, ok, t)
           \/ \E ok \in BOOLEAN, t \in Tokens : GetIdTokenDone(i, ok, t)
           \/ \E ok \in BOOLEAN : SignOutDone(i, ok)

\* React runs the mount effect of a mounted provider, the SDK calls a
\* registered listener, and every promise in flight settles; the listener's
\* fairness is strong because only the bound MaxRequests of the model, not
\* the program, can hold its callback back
AuthFairness ==
    /\ WF_vars(StartupEffect)
    /\ SF_vars(ListenerFire)
    /\ \A kind \in {"profile", "login", "register", "data"}, origin \in Origins :
          WF_vars(SettleRequest(kind, origin))
    /\ \A kind \in {"login", "register", "getIdToken", "signOut"}, origin \in Origins :
          WF_vars(SettleIdpCall(kind, origin))

AuthLiveSpec == AuthInit /\ [][AuthNext]_vars /\ AuthFairness

AuthTypeOK ==
    /\ authVariant \in AuthVariants
    /\ user \in {NoUser, "user"}
    /\ session \in Tokens \cup {NoToken}
    /\ InFlight <= MaxRequests
    /\ \A i \in 1..Len(requests) :
          requests[i].authorization \in {NoHeader} \cup {Bearer(t) : t \in Tokens}

TypeOK ==
    /\ page \in Pages \cup {DETAIL}
    /\ currentPage \in 1..MaxTotal
    /\ itemsPerPage \in PAGE_SIZE_OPTIONS
    /\ fetchState \in {"idle", "fetching"}
    /\ Len(timers) <= 4 + MaxSortTimers

----------------------------------------------------------------------------
(* Properties *)

\* the list query of the current inputs has settled
Settled == fetchState = "idle" /\ data # NoData

\* a step that starts a list request
SendsRequest == QueryKey' # QueryKey \/ (fetchState = "idle" /\ fetchState' = "fetching")

\* C1: on every list page, a change of the search term that drives the list
\* while currentPage > 1 resets currentPage to 1
C1_SearchChangeResetsPage ==
    [][(DrivingSearch' # DrivingSearch /\ currentPage > 1) => currentPage' = 1]_vars

\* a step that commits the Clear button: the handler itself, on the Sales
\* page its delayed callback
ClearCommit ==
    \/ page # "Sales" /\ clearFilters
    \/ page = "Sales" /\ \E i \in 1..Len(timers) : ClearTimerFire(i)

\* C2: on every list page, a step that changes the applied filters, and the
\* step that commits Clear, leave currentPage = 1 in the state whose query
\* uses the new applied filters
C2_FilterCommitResetsPage ==
    [][(applied' # applied \/ ClearCommit) => currentPage' = 1]_vars

\* C2 witness: Apply has just committed a filter on a list that had shown
\* more than one page, and the page is 1
C2_Witness ==
    /\ isApplyingFilters
    /\ page # "Sales"
    /\ applied # EmptyFilters(page)
    /\ data # NoData
    /\ data.serverCount > itemsPerPage
    /\ currentPage = 1

\* C3: on the Users page every change of sortField or sortOrder resets
\* currentPage to 1, the sort reset after a successful create or update too
C3_SortChangeResetsPage ==
    [][(sortField' # sortField \/ sortOrder' # sortOrder) => currentPage' = 1]_vars

\* C4: on every list page and for either response envelope, once the query
\* has settled totalPages = ceil(total / itemsPerPage), total being the
\* backend's count of matching items
C4_TotalPagesIsCeil ==
    Settled => totalPages = CeilDiv(data.serverCount, itemsPerPage)

\* C5: with page size 10 and 25 matching items every list page has
\* totalPages = 3, offers the next page on pages 1 and 2, and offers nothing
\* that leads to page 4
C5_TenPerPageOfTwentyFive ==
    (Settled /\ itemsPerPage = 10 /\ data.serverCount = 25)
        => /\ totalPages = 3
           /\ currentPage \in 1..3
           /\ currentPage < 3 => (currentPage + 1) \in PageChangeTargets
           /\ currentPage = 3 => NextLastDisabled
           /\ 4 \notin PageChangeTargets

\* the frame of an edit in the filter panel
EditFrame ==
    (\E k \in FilterKeys(page), v \in FilterValues : selected' = [selected EXCEPT ![k] = v])
        /\ selected' # selected /\ timers' = timers /\ locationState' = locationState
        => (applied' = applied /\ QueryKey' = QueryKey /\ ~SendsRequest)

\* C6 as claimed: an edit of a selected value changes neither the applied
\* values nor the query key and sends no request, and the applied values
\* change only in the steps of Apply and Clear
C6_AppliedOnlyByApplyOrClear ==
    [][/\ EditFrame
       /\ applied' # applied =>
            \/ applyFilters
            \/ clearFilters
            \/ \E i \in 1..Len(timers) : ApplyTimerFire(i)
            \/ \E i \in 1..Len(timers) : ClearTimerFire(i)]_vars

\* C6 amended: as claimed, with one more step that changes the applied
\* values: the Variants page restoring the filters of location.state
C6_AppliedOnlyByApplyClearOrRestore ==
    [][/\ EditFrame
       /\ applied' # applied =>
            \/ applyFilters
            \/ clearFilters
            \/ \E i \in 1..Len(timers) : ApplyTimerFire(i)
            \/ \E i \in 1..Len(timers) : ClearTimerFire(i)
            \/ RestoreState]_vars

\* C6 witness: a value was edited in the panel and is not applied, and no
\* request is in flight
C6_Witness ==
    /\ showFilterPanel
    /\ selected # applied
    /\ ~isApplyingFilters /\ ~isClearingFilters
    /\ fetchState = "idle"

\* C7: with the panel open and no Clear in progress, the Apply button is
\* disabled exactly when every selected value equals the applied one
C7_ApplyDisabledIffNoChange ==
    (showFilterPanel /\ ~isClearingFilters)
        => (ApplyButtonDisabled <=> (selected = applied))

\* C8: Clear pressed while a filter is applied empties every selected and
\* applied value in the step that commits it, and sends exactly one list
\* request, counting the request of the press and the request of its delayed
\* refetch
C8_ClearSendsOneRequest ==
    [][/\ (ClearCommit /\ applied # EmptyFilters(page))
            => (selected' = EmptyFilters(page) /\ applied' = EmptyFilters(page))
       /\ \A i \in 1..Len(timers) :
            (ClearTimerFire(i) /\ timers[i].arg.hadFilter)
                => timers[i].arg.sent + RequestsSent(TRUE) = 1]_vars

\* C9: in either auth variant, a 401 answer to any request of the HTTP
\* client removes the persisted session token from storage and navigates to
\* the login route
C9_UnauthorizedRemovesToken ==
    [][\A i \in 1..Len(requests) :
          Unauthorized(i) => (storage'[TokenKey] = NoToken /\ location' = LOGIN)]_vars

\* C10: while a session exists, every request handed to the HTTP client
\* carries Authorization: Bearer <the session's token>
C10_RequestsCarryBearer ==
    [][(session # NoToken /\ Len(requests') = Len(requests) + 1)
          => requests'[Len(requests')].authorization = Bearer(session)]_vars

\* a step in which the current-user request at position i fails, with a 401
\* or otherwise
ProfileFails(i) ==
    /\ i \in 1..Len(requests)
    /\ requests[i].kind = "profile"
    /\ Unauthorized(i) \/ ProfileResponse(i, FALSE)

\* C11: on application start with a persisted token the provider requests
\* the current user, and when that request fails the token is removed from
\* storage and user is null
C11_StartupFailureClearsSession ==
    [][/\ (StartupEffect /\ authVariant = "jwt" /\ storage[TokenKey] # NoToken)
            => (Len(requests') = 1 /\ requests'[1].kind = "profile")
       /\ \A i \in 1..Len(requests) :
            ProfileFails(i) => (storage'[TokenKey] = NoToken /\ user' = NoUser)]_vars

\* C12: logout ends in the unauthenticated state: when it has finished, user
\* is null and the persisted session token is removed, also when the
\* identity provider's signOut failed
C12_LogoutEndsUnauthenticated ==
    [][(jwtLogout \/ \E i \in 1..Len(idpCalls), ok \in BOOLEAN : SignOutDone(i, ok))
          => (user' = NoUser /\ storage'[TokenKey] = NoToken)]_vars

\* C12 witness: in the identity-provider variant a logout pressed by a signed-in
\* user has finished with a successful signOut, before the listener ran
C12_Witness ==
    /\ authVariant = "firebase"
    /\ effectRan /\ ~loading
    /\ ~firebaseUser /\ listenerPending
    /\ location = LOGIN
    /\ user = NoUser
    /\ storage[TokenKey] = NoToken
    /\ session = NoToken

\* a create or update request succeeds
SaveSucceeds == UserMutationSuccess \/ FormMutationSuccess

\* C13 as claimed: when a create, update or delete succeeds the list query is
\* refetched, the add/edit modal is closed and the error message is empty
C13_SuccessRefetchesClosesClears ==
    [][(SaveSucceeds \/ DeleteSuccess)
          => (fetchState' = "fetching" /\ ~isAddModalOpen' /\ mutationError' = "")]_vars

\* C13 amended: when a create, update or delete succeeds the list query is
\* refetched and the error message is empty; a create or update also closes
\* the add/edit modal, a delete leaves it as it is
C13_SuccessRefetchesClears ==
    [][/\ (SaveSucceeds \/ DeleteSuccess)
            => (fetchState' = "fetching" /\ mutationError' = "")
       /\ SaveSucceeds => ~isAddModalOpen'
       /\ DeleteSuccess => isAddModalOpen' = isAddModalOpen]_vars

\* C13 witness: on a form page an update has succeeded: the list is being
\* refetched, the modal is closed and no error is shown
C13_Witness ==
    /\ page \in FormPages
    /\ editingItem # NoItem
    /\ mutating = "none" /\ deleting = "none"
    /\ data # NoData /\ fetchState = "fetching"
    /\ ~isAddModalOpen
    /\ mutationError = ""

\* a create or update request fails with the server's message msg
SaveFails(msg) == UserMutationError(msg) \/ FormMutationError(msg)

\* C14: when a create or update request fails, the error message becomes the
\* server's message, or the operation's generic fallback when the server gives
\* none, and the add/edit modal is open
C14_FailureShowsErrorInOpenModal ==
    [][\A msg \in ServerMessages :
          SaveFails(msg)
            => /\ mutationError' = ErrorMessage(msg, Fallback(mutating))
               /\ isAddModalOpen']_vars

\* C20: submitting the product or variant form opened on an existing item
\* sends an update addressed to the item's uid, or to its _id when it has no
\* uid, and a confirmed delete of an item is addressed the same way
C20_ExistingItemAddressedByUid ==
    [][/\ (onSubmit /\ editingItem # NoItem)
            => /\ mutating' = "update"
               /\ mutationTarget' = Or(editingItem.uid, editingItem._id)
       /\ (confirmDelete /\ page \in FormPages /\ itemToDelete # NoItem)
            => deleting' = Or(itemToDelete.uid, itemToDelete._id)]_vars

\* the 2 s callback that clears the error message is pending
DismissPending ==
    \E i \in 1..Len(timers) : timers[i].kind = "banner" /\ Delay("banner") = 2000

\* C15: on the list pages and on the variant detail page, whenever the
\* page-scoped error message is set, its clearing 2 seconds later is pending
\* and needs no user action
C15_ErrorDismissedAfterTwoSeconds ==
    (page \in AutoDismissPages \cup {DETAIL} /\ mutationError # "") => DismissPending

\* C17: a create-sale request carries a phone of exactly 10 decimal digits and
\* a pincode that is empty or exactly 6 decimal digits, and submitting the
\* sell form with a phone of 9 or 11 digits sends no request and shows the
\* validation error
C17_SaleOnlyWithValidPhoneAndPincode ==
    [][/\ (sale' # NoSale /\ sale' # sale)
            => /\ Len(sale'.phone) = 10
               /\ \A i \in 1..10 : sale'.phone[i] \in Digits
               /\ \/ sale'.pincode = <<>>
                  \/ /\ Len(sale'.pincode) = 6
                     /\ \A i \in 1..6 : sale'.pincode[i] \in Digits
       /\ \A rest \in BOOLEAN :
            (SellForm_handleSubmit(rest) /\ Len(phone) \in {9, 11})
               => (sale' = sale /\ formErrors')]_vars

\* C17 witness: a sale with a 10-digit phone and a 6-digit pincode is in flight
C17_Witness ==
    /\ sale # NoSale
    /\ Len(sale.phone) = 10
    /\ Len(sale.pincode) = 6
    /\ isSellModalOpen

\* C18: while the variant shown by the detail page has quantity 0, the Sell
\* button is disabled and labelled "Out of Stock", and no create-sale request
\* is submitted
C18_OutOfStockCannotBeSold ==
    [][(page = DETAIL /\ variant # NoData /\ variant.quantity = 0)
          => /\ SellDisabled
             /\ SellLabel = "Out of Stock"
             /\ ~handleSell
             /\ \A rest \in BOOLEAN :
                  SellForm_handleSubmit(rest) => sale' = sale]_vars

\* C19: when a create-sale request succeeds the page invalidates the sales
\* queries, closes the sell form, clears the sell error and navigates to the
\* Sales list, and neither invalidates nor refetches the variant; when it
\* fails the sell form stays open with the server's message or 'Failed to
\* complete sale', and no navigation happens
C19_SaleOutcome ==
    [][/\ SaleSuccess
            => /\ salesInvalidated'
               /\ ~isSellModalOpen'
               /\ sellError' = ""
               /\ page' = "Sales" /\ location' = "/sales"
               /\ variantFetch' = variantFetch /\ variant' = variant
       /\ \A msg \in ServerMessages :
            SaleError(msg)
              => /\ isSellModalOpen' = isSellModalOpen
                 /\ sellError' = ErrorMessage(msg, "Failed to complete sale")
                 /\ page' = page /\ location' = location]_vars

\* C19 witness: a sale has succeeded and the Sales list is mounted
C19_Witness ==
    /\ page = "Sales"
    /\ location = "/sales"
    /\ salesInvalidated
    /\ ~isSellModalOpen
    /\ sale = NoSale

\* C16: after the list request or a create or update request fails, the
\* client has no request for it in flight and sends none on its own
C16_NoAutomaticRetry ==
    [][\A msg \in ServerMessages :
          /\ FetchError(msg) => fetchState' = "idle"
          /\ UserMutationError(msg) => mutating' = "none"]_vars

\* C30: while a create-sale request is in flight the sell form cannot be
\* submitted, so a submit never adds a request to one that is outstanding
C30_OneSaleInFlight ==
    [][\A rest \in BOOLEAN :
          SellForm_handleSubmit(rest) => sale = NoSale]_vars

\* C30 witness: the sell form is open on the detail page with its request in
\* flight
C30_Witness ==
    /\ page = DETAIL
    /\ isSellModalOpen
    /\ sale # NoSale
    /\ sale = SaleData

\* keys a create or update of the page's resource may send
AllowList(p, operation) ==
    IF p = "Products" THEN ProductKeys
    ELSE (VariantRequired \cup VariantOptional)
         \ (IF operation = "update" THEN {"title"} ELSE {})

\* C21: the body of every product or variant create and update holds only
\* keys of the resource's allow-list for the operation: no id, _id, uid,
\* profit margin, timestamp, __v or count, and no title in a variant update
C21_BodyHoldsAllowedKeysOnly ==
    body # NoBody
      => /\ body.keys \subseteq AllowList(page, body.operation)
         /\ body.keys \cap ItemOnlyKeys = {}
         /\ (page # "Products" /\ body.operation = "update") => "title" \notin body.keys

\* C21 witness: a variant update was sent for data that held a title, an _id
\* and a further key of the item
C21_Witness ==
    /\ page \in {"Variants", "ProductVariants"}
    /\ body # NoBody
    /\ body.operation = "update"
    /\ "title" \in variantData
    /\ variantData \cap ItemOnlyKeys \notin {{}, {"_id"}}

\* C22: submitting the create-user form with a password that differs from
\* the confirmation sends no request and reports the error on
\* confirmPassword; when they are equal and the form is valid the request is
\* sent, without confirmPassword
C22_MismatchIsRejected ==
    [][handleSubmitCreate
          => IF createForm.password # createForm.confirmPassword
               THEN /\ mutating' = mutating
                    /\ body' = body
                    /\ "confirmPassword" \in fieldErrors'
               ELSE (createForm.rest /\ Len(createForm.password) >= 6)
                      => /\ mutating' = "create"
                         /\ body' # NoBody
                         /\ "confirmPassword" \notin body'.keys]_vars

\* C22 witness: a create-user request is in flight for a form whose password
\* and confirmation are equal
C22_Witness ==
    /\ page = "Users"
    /\ mutating = "create"
    /\ body # NoBody
    /\ createForm.password = createForm.confirmPassword
    /\ createForm.password = "secret"

\* C23: on every list page, typing into the search input sends no list
\* request by itself: the search value of the query changes only when the
\* debounce delay has run out on an unchanged input, to that input
C23_SearchRequestsAreDebounced ==
    [][/\ \A v \in SearchValues : TypeSearch(v) => ~SendsRequest
       /\ DrivingSearch' # DrivingSearch
            => /\ \E i \in 1..Len(timers) : DebounceFire(i)
               /\ DrivingSearch' = searchTerm]_vars

\* C24: in the identity-provider variant the periodic token check runs only
\* for a signed-in identity-provider user; a check whose refresh fails starts
\* logout(), and when that logout has finished the user is null, the token is
\* removed and the browser is at /login?message=session_expired; a check whose
\* refresh succeeds, and the interval with nobody signed in, change nothing
\* of the session.
C24_FailedTokenCheckLogsOut ==
    [][/\ TokenCheck => firebaseUser
       /\ \A i \in 1..Len(idpCalls), t \in Tokens :
             (GetIdTokenDone(i, FALSE, t) /\ idpCalls[i].origin = "interval")
                => /\ i \in 1..Len(idpCalls')
                   /\ idpCalls'[i] = IdpCall("signOut", "interval")
       /\ \A i \in 1..Len(idpCalls), t \in Tokens :
             (GetIdTokenDone(i, TRUE, t) /\ idpCalls[i].origin = "interval")
                => UNCHANGED <<storage, user, location, loading>>
       /\ \A i \in 1..Len(idpCalls), ok \in BOOLEAN :
             (SignOutDone(i, ok) /\ idpCalls[i].origin = "interval")
                => /\ user' = NoUser
                   /\ storage'["firebase_token"] = NoToken
                   /\ location' = SESSION_EXPIRED]_vars

\* a signed-in session was just ended by a failed token check
C24_Witness ==
    /\ authVariant = "firebase"
    /\ location = SESSION_EXPIRED
    /\ user = NoUser
    /\ storage["firebase_token"] = NoToken
    /\ ~effectRan
    /\ firebaseUser

\* C28: in both variants, whenever no auth request, identity-provider call or
\* listener callback is outstanding, a non-null user implies that a session
\* token is persisted under the variant's storage key.
C28_AuthenticatedOnlyWithToken ==
    (effectRan /\ InFlight = 0 /\ ~listenerPending /\ user # NoUser)
        => storage[TokenKey] # NoToken

\* C29: a provider whose mount effect has run and whose loading flag is still
\* true gets to loading = false on every startup path, unless the browser
\* replaces the document first (a new provider then starts); the mount effect
\* of every provider runs; and the flag of a provider goes from false to true
\* never: loading is true after false only in a new document.
C29_LoadingEndsAndStaysFalse ==
    /\ [][(~loading /\ loading') => ~effectRan']_vars
    /\ (~effectRan) ~> effectRan
    /\ (effectRan /\ loading) ~> (~loading \/ ~effectRan)

\* the listener found a signed-in user, the current-user request succeeded
\* and the flag is false
C29_Witness ==
    /\ authVariant = "firebase"
    /\ effectRan /\ ~loading
    /\ firebaseUser /\ ~listenerPending
    /\ user # NoUser
    /\ storage["firebase_token"] # NoToken
    /\ InFlight = 0

\* C27: on every list page, whenever the list query has settled,
\* 1 <= currentPage <= max(1, totalPages).
C27_CurrentPageWithinPages ==
    Settled => (1 <= currentPage /\ currentPage <= Max(1, totalPages))

C26_NoCallbackAfterUnmount ==
    [][~pageMounted => timers' = timers]_vars
====
